---- MODULE Spec2Model ----
(***************************************************************************)
(* Model of perspective_kb: the embedding pipeline of DataHelper           *)
(* (embed_text, embed_batch, the embedding cache and its file), the        *)
(* dictionary builders, LocalVectorDB.search and main().                   *)
(*                                                                         *)
(* A text is a sequence of one-character strings.  A vector returned by    *)
(* the embedding service is a record naming the text and the model it was  *)
(* computed for and a variant number: the service is external, so two      *)
(* calls for the same text may return different vectors.                   *)
(***************************************************************************)
EXTENDS Integers, Sequences, FiniteSets, TLC

\* ------------------------------------------------------------------ bounds
\* number of texts handed to embed_text in one behaviour, over all its calls
MaxTexts == 2
\* number of items handed to build_dictionary in one behaviour, over all its calls
MaxItems == 2
\* the same, in the behaviours where every text is the same text
RaceTexts == 3

\* Python's None, where a vector is expected
None == [text |-> << >>, model |-> "None", variant |-> 0]
\* the attribute embedding_model before _setup_ollama_client has set it
Unset == "Unset"

Models == {"m1", "m2"}
Variants == {1, 2}
WorkerCounts == {1, 2}
Whitespace == {" "}
Texts == {<<"a">>, <<"b">>, <<" ">>}

\* retry_count: int = 3, the default attempt count of embed_text
DefaultRetryCount == 3
RetryCounts == {1, 2, 3, 4}

VARIABLES
    embedding_model,   \* self.embedding_model
    enable_cache,      \* self.enable_cache
    max_workers,       \* self.max_workers
    embedding_cache,   \* self._embedding_cache: text_hash -> EmbeddingCache
    cache_files,       \* the cache file of each model: absent, corrupt, or its entries
    stats,             \* self.stats
    caller,            \* the last operation on the helper: "none" (constructed),
                       \* "attribute", "embed_text", "embed_batch", "build_dictionary"
    phase,             \* "idle", "running", "assemble" (a builder's loop), "returned"
    texts,             \* the texts of the call in progress
    retry_count,       \* the retry_count the embed_text calls run with
    embeddings,        \* embed_batch's local list embeddings
    completed,         \* embed_batch's local counter completed
    collected,         \* the futures as_completed has already yielded
    postfix,           \* what the progress bar shows: <<succeeded, failed>>
    ret,               \* what the last call returned or raised
    save_error,        \* whether the last _save_cache caught an exception
    wpc,               \* position of each task (a submitted embed_text call)
    attempt,           \* embed_text's loop variable attempt, per task
    tmp,               \* the value a task read from a counter it is incrementing
    vec,               \* the embedding a task holds (cache_obj.embedding or embedding)
    fut,               \* the outcome of each task's future
    waits,             \* history: the arguments of time.sleep of each running task
    seen,              \* history: what a task found when it began: the successes
                       \* for its text and the cache entry of its text
    last,              \* history: the embed_text call that finished last
    succeeded,         \* history: text -> vectors returned by finished successful calls
    issued,            \* history: text -> number of distinct vectors the service gave it
    nsubmitted,        \* history: number of texts submitted so far, over all calls
    client,            \* LocalVectorDB.client: None until connect()
    collections,       \* the names of the collections the database holds
    similarity_metric, \* settings.similarity_metric
    data_type,         \* build_dictionary's data_type, "none" outside the builders
    data,              \* the items handed to build_dictionary
    di,                \* the builders' loop position in zip(data, embeddings), from 1
    dictionary,        \* knowledge_dictionary / feedback_corpus, the list being built
    skipped,           \* history: number of items skipped with a warning
    searched,          \* history: per item looped over, what local_db.search gave
    mpc,               \* position of main(): "start", "health", "helper", "knowledge",
                       \* "feedback", "save", "summary", "close", "done"
    errors,            \* processor.stats.errors
    knowledge_records, \* processor.stats.knowledge_records
    feedback_records,  \* processor.stats.feedback_records
    status,            \* processor.stats.status
    dictionaries,      \* main's perspective_dictionary and feedback_corpus: "None",
                       \* or "list" for a list that is not empty
    main_ret,          \* what main() returned: "none" while it runs
    failed_items,      \* history: number of items of the run that failed to embed
    db_closed,         \* history: whether db.close() was called
    op,                \* the function or method called by itself: "none", "clean_text",
                       \* "build_knowledge_text", "build_feedback_text", "LocalVectorDB"
    trail,             \* its argument, followed by what each call of it returned
    client_closes,     \* history: number of calls of close() on the database client
    knowledge_step,    \* history: how process_knowledge_base of this run ended, and
                       \* the number of its records stored in the "knowledge" collection
    search_log         \* history: one entry per knowledge search of the feedback step

vars == <<embedding_model, enable_cache, max_workers, embedding_cache, cache_files,
          stats, caller, phase, texts, retry_count, embeddings, completed, collected,
          postfix, ret, save_error, wpc, attempt, tmp, vec, fut, waits, seen, last,
          succeeded, issued, nsubmitted, client, collections, similarity_metric,
          data_type, data, di, dictionary, skipped, searched, mpc, errors,
          knowledge_records, feedback_records, status, dictionaries, main_ret,
          failed_items, db_closed, op, trail, client_closes, knowledge_step,
          search_log>>

dbVars == <<client, collections, similarity_metric>>
dictVars == <<data_type, data, di, dictionary, skipped, searched>>
mainVars == <<mpc, errors, knowledge_records, feedback_records, status, dictionaries,
              main_ret, failed_items, db_closed>>
runVars == <<knowledge_step, search_log>>
unitVars == <<op, trail, client_closes, runVars>>
outerVars == <<dbVars, dictVars, mainVars, unitVars>>
helperVars == <<embedding_model, enable_cache, max_workers>>
batchVars == <<embeddings, completed, collected, postfix>>
taskVars == <<wpc, attempt, tmp, vec, fut, waits, seen, last>>

\* ------------------------------------------------------------ pure helpers
\* the empty string
EmptyText == << >>

\* text.strip() is empty (also true of the empty text)
IsBlank(text) == \A k \in 1..Len(text) : text[k] \in Whitespace

\* faulty variant of skips_embedding: the text is not stripped
skips_embedding_unstripped(text) == text = << >>

\* not text or not text.strip(), the test of line 401
skips_embedding(text) == text = << >> \/ IsBlank(text)

\* hashlib.md5(text.encode('utf-8')).hexdigest(): distinct texts of the model
\* get distinct digests
md5(text) == <<"md5", text>>

\* EmbeddingCache.from_text (the timestamp is not modelled)
from_text(text, embedding, model) ==
    [text_hash |-> md5(text), embedding |-> embedding, model |-> model]

\* 2 ** n
RECURSIVE Pow2(_)
Pow2(n) == IF n = 0 THEN 1 ELSE 2 * Pow2(n - 1)

\* sum(1 for e in embeddings[:n] if e is not None)
CountVectors(seq, n) == Cardinality({k \in 1..n : k <= Len(seq) /\ seq[k] # None})
\* sum(1 for e in embeddings[:n] if e is None)
CountNone(seq, n) == Cardinality({k \in 1..n : k <= Len(seq) /\ seq[k] = None})

EmptyCache == << >>

\* a cache file: missing, unreadable, or holding the entries last dumped
AbsentFile == [state |-> "absent", entries |-> EmptyCache]
CorruptFile == [state |-> "corrupt", entries |-> EmptyCache]
\* faulty variant of FileOf: the dump stops after one entry
FileOfOneEntry(cache) ==
    [state |-> "written",
     entries |-> IF DOMAIN cache = {} THEN cache
                 ELSE [k \in {CHOOSE k \in DOMAIN cache : TRUE} |-> cache[k]]]

\* the file json.dump(cache_data, f) leaves (lines 161-164)
FileOf(cache) == [state |-> "written", entries |-> cache]

\* what a call gave its caller
NoReturn == [kind |-> "none", val |-> None]

\* faulty variant of DictSet: a key already present keeps its value
DictSetKeepFirst(d, key, value) ==
    [k \in DOMAIN d \cup {key} |-> IF k \in DOMAIN d THEN d[k] ELSE value]

\* the dict after  self._embedding_cache[key] = value
DictSet(d, key, value) ==
    [k \in DOMAIN d \cup {key} |-> IF k = key THEN value ELSE d[k]]

\* _load_cache: model_attr is what self.embedding_model holds when it runs.  An
\* attribute that is not set raises AttributeError inside the try, and the
\* handler empties the cache; so do a corrupt file and a missing one.
load_cache(model_attr, files) ==
    IF model_attr = Unset THEN EmptyCache
    ELSE IF files[model_attr].state \in {"absent", "corrupt"} THEN EmptyCache
    ELSE files[model_attr].entries

\* DataHelper.__init__: the cache is loaded (when enabled) before
\* _setup_ollama_client sets embedding_model
init_cache(enabled, files) ==
    IF enabled THEN load_cache(Unset, files) ELSE EmptyCache

\* faulty variant of construct_result: _load_cache without its try/except
construct_result_unguarded(enabled, files) ==
    IF enabled THEN [kind |-> "raise", val |-> "AttributeError"]
    ELSE [kind |-> "none", val |-> None]

\* what DataHelper(...) gives its caller: the helper.  _load_cache catches
\* every Exception of its body (lines 149-151), whatever the files hold
construct_result(enabled, files) == [kind |-> "none", val |-> None]

\* self.stats; processing_time, embeddings_generated and errors are not modelled
ZeroStats == [cache_hits |-> 0, cache_misses |-> 0]

NoTasks == << >>

ValueOf(v) == [kind |-> "value", val |-> v]
Raised(e) == [kind |-> "raise", val |-> e]

\* no cache entry
NoEntry == [text_hash |-> << >>, embedding |-> None, model |-> "None"]

\* what a task that has not begun has found
NotSeen == [succ |-> {}, cached |-> NoEntry]

\* ------------------------------------------------------------ text building
\* characters clean_text treats alike: word characters (kept), characters
\* outside the kept class (removed), punctuation whose repetitions are merged
Letters == {"a", "b"}
Removed == {"#"}
Punctuation == {"!"}

\* item.get(key, default)
Get(item, key, default) == IF key \in DOMAIN item THEN item[key] ELSE default

\* text.lstrip(), text.rstrip(), text.strip()
RECURSIVE lstrip(_)
lstrip(text) ==
    IF text # << >> /\ Head(text) \in Whitespace THEN lstrip(Tail(text)) ELSE text
RECURSIVE rstrip(_)
rstrip(text) ==
    IF text # << >> /\ text[Len(text)] \in Whitespace
      THEN rstrip(SubSeq(text, 1, Len(text) - 1))
      ELSE text
strip(text) == rstrip(lstrip(text))

\* re.sub(r'\s+', ' ', text), line 203
RECURSIVE collapse_whitespace(_)
collapse_whitespace(text) ==
    IF text = << >> THEN << >>
    ELSE IF Head(text) \in Whitespace
      THEN <<" ">> \o collapse_whitespace(lstrip(text))
      ELSE <<Head(text)>> \o collapse_whitespace(Tail(text))

\* re.sub(r'[^...]', '', text), line 206
IsKept(c) == c \notin Removed
remove_other(text) == SelectSeq(text, IsKept)

\* re.sub(r'([,.!?...])\1+', r'\1', text), line 209
RECURSIVE merge_punctuation(_)
merge_punctuation(text) ==
    IF Len(text) < 2 THEN text
    ELSE IF Head(text) \in Punctuation /\ text[2] = Head(text)
      THEN merge_punctuation(Tail(text))
      ELSE <<Head(text)>> \o merge_punctuation(Tail(text))

\* DataHelper.clean_text; a missing value (None) is the empty text
clean_text(text) ==
    IF text = << >> THEN << >>
    ELSE strip(merge_punctuation(remove_other(collapse_whitespace(strip(text)))))

\* sep.join(parts)
RECURSIVE join(_, _)
join(sep, parts) ==
    IF parts = << >> THEN << >>
    ELSE IF Len(parts) = 1 THEN parts[1]
    ELSE parts[1] \o sep \o join(sep, Tail(parts))

\* [clean_text(x) for x in xs if x], then the empty results dropped by the
\* caller's "if cleaned" only when all are empty (lines 335-343)
RECURSIVE clean_all(_)
clean_all(xs) ==
    IF xs = << >> THEN << >>
    ELSE IF Head(xs) = << >> THEN clean_all(Tail(xs))
    ELSE <<clean_text(Head(xs))>> \o clean_all(Tail(xs))

\* the fullwidth colon U+FF1A that ends every label of the two text builders
FullwidthColon == "U+FF1A"
\* a label: a Chinese word, written here in pinyin, and the fullwidth colon
Label(word) == <<word, FullwidthColon>>
\* the separator " | "
Bar == <<" ", "|", " ">>

\* a labelled part, or nothing when the value is empty
Part(word, value) == IF value = << >> THEN << >> ELSE <<Label(word) \o value>>

\* DataHelper.build_knowledge_text
build_knowledge_text(item) ==
    LET aspect == clean_text(Get(item, "aspect", << >>))
        insight == clean_text(Get(item, "insight", << >>))
        sentiment == clean_text(Get(item, "sentiment", << >>))
        description == clean_text(Get(item, "description", << >>))
        examples == Get(item, "examples", << >>)
        keywords == Get(item, "keywords", << >>)
        cleaned_examples == clean_all(SubSeq(examples, 1, IF Len(examples) < 3 THEN Len(examples) ELSE 3))
        cleaned_keywords == clean_all(keywords)
        text_parts ==
            Part("weidu", aspect) \o Part("guandian", insight) \o
            Part("qinggan", sentiment) \o Part("miaoshu", description) \o
            (IF cleaned_examples = << >> THEN << >>
               ELSE <<Label("lizi") \o join(Bar, cleaned_examples)>>) \o
            (IF cleaned_keywords = << >> THEN << >>
               ELSE <<Label("guanjianci") \o join(<<" ">>, cleaned_keywords)>>)
        result_text == join(Bar, text_parts)
    IN  IF IsBlank(result_text)
          THEN Get(item, "insight", Get(item, "aspect", <<"weizhi neirong">>))
          ELSE result_text

\* DataHelper.build_feedback_text
build_feedback_text(raw_text, summary) ==
    LET cleaned_raw == clean_text(raw_text)
        cleaned_summary == clean_text(summary)
    IN  IF cleaned_raw = << >> THEN <<"kong neirong">>
        ELSE IF summary # << >> /\ cleaned_summary # << >>
          THEN Label("zhaiyao") \o cleaned_summary \o Bar \o Label("yuanwen") \o cleaned_raw
          ELSE Label("yonghu fankui") \o cleaned_raw

\* ------------------------------------------------------------------- inputs
\* a perspective an input feedback item carries in a field of its own
GivenPerspective == [id |-> <<"given">>, score |-> <<1, 1>>, insight |-> << >>, aspect |-> << >>]

\* knowledge items: with and without insight_id, one with a passthrough field,
\* one whose text is blank
KnowledgeItems ==
    { [insight_id |-> <<"k1">>, aspect |-> <<"a">>, insight |-> <<"b", "!", "!">>],
      [aspect |-> <<"b">>, source |-> <<"a">>],
      [insight_id |-> <<"k3">>, insight |-> <<" ">>] }

\* feedback items: with and without fb_id and summary, one with passthrough
\* fields named like fields the builder computes
FeedbackItems ==
    { [fb_id |-> <<"f1">>, raw_text |-> <<"a">>],
      [raw_text |-> <<"b", " ", "#">>, summary |-> <<"a">>],
      [fb_id |-> <<"f3">>, raw_text |-> <<"a", "b">>,
       mapped_perspectives |-> <<GivenPerspective>>, match_count |-> 7] }

\* the text the builders embed for an item
knowledge_text_of(item) == build_knowledge_text(item)
feedback_text_of(item) ==
    build_feedback_text(Get(item, "raw_text", << >>), Get(item, "summary", << >>))

\* every text the model hands to embed_text
AllTexts ==
    Texts \cup {EmptyText}
          \cup {knowledge_text_of(it) : it \in KnowledgeItems}
          \cup {feedback_text_of(it) : it \in FeedbackItems}

\* LocalVectorDB.client before connect()
NoClient == "None"
Metrics == {"COSINE", "L2", "IP"}
\* similarity_metric: str = Field(default="COSINE")
DefaultMetric == "COSINE"

\* no embed_text call has finished yet
NoLast == [index |-> 0, text |-> << >>, out |-> ValueOf(None), calls |-> 0,
           waits |-> << >>, seen |-> {}, cached |-> NoEntry, hit |-> FALSE,
           n |-> 0, model |-> "None", enabled |-> FALSE]

\* a helper just constructed, with settings.embedding_model = "m1"
InitHelper ==
    /\ embedding_model = "m1"
    /\ enable_cache \in BOOLEAN
    /\ max_workers \in WorkerCounts
    /\ cache_files = [m \in Models |-> AbsentFile]
    /\ embedding_cache = init_cache(enable_cache, cache_files)
    /\ stats = ZeroStats
    /\ caller = "none"
    /\ phase = "idle"
    /\ texts = << >>
    /\ retry_count = DefaultRetryCount
    /\ embeddings = << >>
    /\ completed = 0
    /\ collected = {}
    /\ postfix = <<0, 0>>
    /\ ret = NoReturn
    /\ save_error = FALSE
    /\ wpc = NoTasks
    /\ attempt = NoTasks
    /\ tmp = NoTasks
    /\ vec = NoTasks
    /\ fut = NoTasks
    /\ waits = NoTasks
    /\ seen = NoTasks
    /\ last = NoLast
    /\ succeeded = [t \in AllTexts |-> {}]
    /\ issued = [t \in AllTexts |-> 0]
    /\ nsubmitted = 0
    /\ data_type = "none"
    /\ data = << >>
    /\ di = 0
    /\ dictionary = << >>
    /\ skipped = 0
    /\ searched = << >>

\* main() has not started: ProcessingStats() of the processor
InitRun ==
    /\ mpc = "start"
    /\ errors = << >>
    /\ knowledge_records = 0
    /\ feedback_records = 0
    /\ status = "unknown"
    /\ dictionaries = [knowledge |-> "None", feedback |-> "None"]
    /\ main_ret = "none"
    /\ failed_items = 0
    /\ db_closed = FALSE

\* no function has been called by itself, no client closed
InitUnit ==
    /\ op = "none"
    /\ trail = << >>
    /\ client_closes = 0
    /\ knowledge_step = [finished |-> FALSE, succeeded |-> FALSE, inserted |-> 0, rows |-> 0]
    /\ search_log = << >>

\* a helper and a LocalVectorDB just constructed, under the default settings
Init ==
    /\ InitHelper
    /\ InitRun
    /\ InitUnit
    /\ client = NoClient
    /\ collections = {}
    /\ similarity_metric = DefaultMetric

\* ------------------------------------------------- construction, attributes
\* DataHelper(max_workers=mw, enable_cache=ec) with settings.embedding_model = m:
\* a new helper replaces the current one; the cache files stay on disk
Construct(m, ec, mw) ==
    /\ phase \in {"idle", "returned"}
    /\ embedding_model' = m
    /\ enable_cache' = ec
    /\ max_workers' = mw
    /\ embedding_cache' = init_cache(ec, cache_files)
    /\ stats' = ZeroStats
    /\ caller' = "none"
    /\ phase' = "idle"
    /\ texts' = << >>
    /\ retry_count' = DefaultRetryCount
    /\ ret' = construct_result(ec, cache_files)
    /\ save_error' = FALSE
    /\ embeddings' = << >> /\ completed' = 0 /\ collected' = {} /\ postfix' = <<0, 0>>
    /\ wpc' = NoTasks /\ attempt' = NoTasks /\ tmp' = NoTasks /\ vec' = NoTasks
    /\ fut' = NoTasks /\ waits' = NoTasks /\ seen' = NoTasks /\ last' = NoLast
    /\ succeeded' = [t \in AllTexts |-> {}]
    /\ data_type' = "none" /\ data' = << >> /\ di' = 0 /\ dictionary' = << >>
    /\ skipped' = 0 /\ searched' = << >>
    /\ UNCHANGED <<cache_files, issued, nsubmitted>>
    /\ UNCHANGED dbVars
    /\ UNCHANGED mainVars
    /\ UNCHANGED unitVars

\* helper.embedding_model = m: the attribute is public and the cache is kept
SetEmbeddingModel(m) ==
    /\ phase \in {"idle", "returned"}
    /\ m # embedding_model
    /\ embedding_model' = m
    /\ caller' = "attribute"
    /\ succeeded' = [t \in AllTexts |-> {}]
    /\ UNCHANGED <<enable_cache, max_workers, embedding_cache, cache_files, stats,
                   phase, texts, retry_count, ret, save_error, issued, nsubmitted>>
    /\ UNCHANGED batchVars
    /\ UNCHANGED taskVars
    /\ UNCHANGED outerVars

\* ------------------------------------------------------------ starting calls
\* the tasks of a call over the texts ts, none started yet
StartTasks(ts) ==
    /\ wpc' = [i \in 1..Len(ts) |-> "queued"]
    /\ attempt' = [i \in 1..Len(ts) |-> 0]
    /\ tmp' = [i \in 1..Len(ts) |-> 0]
    /\ vec' = [i \in 1..Len(ts) |-> None]
    /\ fut' = [i \in 1..Len(ts) |-> None]
    /\ waits' = [i \in 1..Len(ts) |-> << >>]
    /\ seen' = [i \in 1..Len(ts) |-> NotSeen]
    /\ last' = NoLast

\* lines 473-486 of embed_batch(ts): every task is submitted
submit_batch(ts) ==
    /\ nsubmitted' = nsubmitted + Len(ts)
    /\ texts' = ts
    /\ retry_count' = DefaultRetryCount
    /\ embeddings' = [i \in 1..Len(ts) |-> None]
    /\ completed' = 0
    /\ collected' = {}
    /\ postfix' = <<0, 0>>
    /\ save_error' = FALSE
    /\ StartTasks(ts)
    /\ UNCHANGED <<embedding_cache, cache_files, stats, succeeded, issued>>
    /\ UNCHANGED helperVars

\* embed_batch(ts) called on the helper; an empty list returns [] at once
embed_batch_call(ts, limit) ==
    /\ phase \in {"idle", "returned"}
    /\ nsubmitted + Len(ts) <= limit
    /\ caller' = "embed_batch"
    /\ submit_batch(ts)
    /\ IF ts = << >>
         THEN phase' = "returned" /\ ret' = [kind |-> "list", val |-> << >>]
         ELSE phase' = "running" /\ ret' = NoReturn
    /\ UNCHANGED outerVars

\* embed_text(t, retry_count=n) called directly, in the caller's thread
embed_text_call(t, n, limit) ==
    /\ phase \in {"idle", "returned"}
    /\ nsubmitted + 1 <= limit
    /\ nsubmitted' = nsubmitted + 1
    /\ caller' = "embed_text"
    /\ texts' = <<t>>
    /\ retry_count' = n
    /\ embeddings' = << >>
    /\ completed' = 0
    /\ collected' = {}
    /\ postfix' = <<0, 0>>
    /\ save_error' = FALSE
    /\ StartTasks(<<t>>)
    /\ phase' = "running"
    /\ ret' = NoReturn
    /\ UNCHANGED <<embedding_cache, cache_files, stats, succeeded, issued>>
    /\ UNCHANGED helperVars
    /\ UNCHANGED outerVars

\* ------------------------------------------------------- embed_text, by step
\* the threads of the executor run their tasks while embed_batch collects the
\* futures, and still do while the with statement of line 481 is left on an
\* exception: its __exit__ is shutdown(wait=True)
Active == phase \in {"running", "interrupted"}

Running(i) == wpc[i] \notin {"queued", "done"}

\* faulty variant of MayStart: a thread for every submitted task
MayStartUnbounded(i) ==
    /\ wpc[i] = "queued"
    /\ \A j \in 1..(i - 1) : wpc[j] # "queued"

\* the executor runs a queued task when a worker thread is free, in submission
\* order; a direct embed_text call runs at once
MayStart(i) ==
    /\ wpc[i] = "queued"
    /\ \A j \in 1..(i - 1) : wpc[j] # "queued"
    /\ Cardinality({j \in DOMAIN wpc : Running(j)}) < max_workers

\* faulty variant of CacheHit: the model of the entry is not compared
CacheHitAnyModel(cache, text, model, enabled) ==
    /\ enabled
    /\ md5(text) \in DOMAIN cache

\* whether the lookup of lines 407-409 is a hit
CacheHit(cache, text, model, enabled) ==
    /\ enabled
    /\ md5(text) \in DOMAIN cache
    /\ cache[md5(text)].model = model

\* the task of texts[i] ends with the outcome out after ncall service calls;
\* its locals are gone, and the history keeps the call as the last one finished
Finish(i, out, ncall, found) ==
    /\ wpc' = [wpc EXCEPT ![i] = "done"]
    /\ fut' = [fut EXCEPT ![i] = out]
    /\ attempt' = [attempt EXCEPT ![i] = 0]
    /\ tmp' = [tmp EXCEPT ![i] = 0]
    /\ vec' = [vec EXCEPT ![i] = None]
    /\ waits' = [waits EXCEPT ![i] = << >>]
    /\ seen' = [seen EXCEPT ![i] = NotSeen]
    /\ last' = [index |-> i, text |-> texts[i], out |-> out, calls |-> ncall,
                waits |-> waits[i], seen |-> found.succ, cached |-> found.cached,
                hit |-> wpc[i] = "hit", n |-> retry_count, model |-> embedding_model,
                enabled |-> enable_cache]
    /\ succeeded' = IF out.kind = "value" /\ out.val # None
                      THEN [succeeded EXCEPT ![texts[i]] = @ \cup {out.val}]
                      ELSE succeeded

\* history: what the task of texts[i] finds when it begins
Found(i) ==
    [succ |-> succeeded[texts[i]],
     cached |-> IF md5(texts[i]) \in DOMAIN embedding_cache
                  THEN embedding_cache[md5(texts[i])] ELSE NoEntry]

\* lines 401-414, up to the read of the counter that  self.stats[...] += 1
\* increments: the blank check, the cache lookup, the read of the counter
embed_text_begin(i) ==
    /\ Active
    /\ MayStart(i)
    /\ IF skips_embedding(texts[i])
         THEN Finish(i, ValueOf(None), 0, Found(i))
         ELSE IF CacheHit(embedding_cache, texts[i], embedding_model, enable_cache)
         THEN /\ wpc' = [wpc EXCEPT ![i] = "hit"]
              /\ vec' = [vec EXCEPT ![i] = embedding_cache[md5(texts[i])].embedding]
              /\ tmp' = [tmp EXCEPT ![i] = stats.cache_hits]
              /\ seen' = [seen EXCEPT ![i] = Found(i)]
              /\ UNCHANGED <<fut, succeeded, attempt, waits, last>>
         ELSE /\ wpc' = [wpc EXCEPT ![i] = "miss"]
              /\ tmp' = [tmp EXCEPT ![i] = stats.cache_misses]
              /\ seen' = [seen EXCEPT ![i] = Found(i)]
              /\ UNCHANGED <<vec, fut, succeeded, attempt, waits, last>>
    /\ UNCHANGED <<embedding_cache, cache_files, stats, caller, phase, texts, retry_count,
                   ret, save_error, issued, nsubmitted>>
    /\ UNCHANGED helperVars
    /\ UNCHANGED batchVars
    /\ UNCHANGED outerVars

\* lines 410-412: cache_hits is written and the cached embedding returned
hit_store(i) ==
    /\ Active
    /\ wpc[i] = "hit"
    /\ stats' = [stats EXCEPT !.cache_hits = tmp[i] + 1]
    /\ Finish(i, ValueOf(vec[i]), 0, seen[i])
    /\ UNCHANGED <<embedding_cache, cache_files, caller, phase, texts, retry_count,
                   ret, save_error, issued, nsubmitted>>
    /\ UNCHANGED helperVars
    /\ UNCHANGED batchVars
    /\ UNCHANGED outerVars

\* lines 414-417: cache_misses is written and the loop entered; range(0) is
\* empty and line 460 returns None
miss_store(i) ==
    /\ Active
    /\ wpc[i] = "miss"
    /\ stats' = [stats EXCEPT !.cache_misses = tmp[i] + 1]
    /\ IF retry_count > 0
         THEN /\ wpc' = [wpc EXCEPT ![i] = "call"]
              /\ tmp' = [tmp EXCEPT ![i] = 0]
              /\ UNCHANGED <<fut, succeeded, attempt, vec, waits, seen, last>>
         ELSE Finish(i, ValueOf(None), 0, seen[i])
    /\ UNCHANGED <<embedding_cache, cache_files, caller, phase, texts, retry_count,
                   ret, save_error, issued, nsubmitted>>
    /\ UNCHANGED helperVars
    /\ UNCHANGED batchVars
    /\ UNCHANGED outerVars

\* faulty variant of cache_put: the cache is populated whether enabled or not
cache_put_unconditional(cache, text, embedding, model, enabled) ==
    DictSet(cache, md5(text), from_text(text, embedding, model))

\* faulty variant of cache_put: a successful call does not populate the cache
cache_put_skipped(cache, text, embedding, model, enabled) == cache

\* the cache after lines 432-435
cache_put(cache, text, embedding, model, enabled) ==
    IF enabled THEN DictSet(cache, md5(text), from_text(text, embedding, model))
    ELSE cache

\* lines 421-443: ollama_client.embed answers with an embedding; the cache is
\* populated and the embedding returned.  attempt[i] calls have failed before.
service_ok(i, variant) ==
    /\ Active
    /\ wpc[i] = "call"
    /\ variant <= issued[texts[i]] + 1
    /\ issued' = [issued EXCEPT ![texts[i]] = IF variant > @ THEN variant ELSE @]
    /\ LET embedding == [text |-> texts[i], model |-> embedding_model, variant |-> variant]
       IN  /\ embedding_cache' = cache_put(embedding_cache, texts[i], embedding,
                                           embedding_model, enable_cache)
           /\ Finish(i, ValueOf(embedding), attempt[i] + 1, seen[i])
    /\ UNCHANGED <<cache_files, stats, caller, phase, texts, retry_count,
                   ret, save_error, nsubmitted>>
    /\ UNCHANGED helperVars
    /\ UNCHANGED batchVars
    /\ UNCHANGED outerVars

\* faulty variant of RetryAfter: the last attempt is taken for one that is retried
RetryAfterOffByOne(att, n) == att < n

\* whether another attempt follows the failed attempt number att (line 451)
RetryAfter(att, n) == att < n - 1

\* faulty variant of wait_time: the delay grows by one second, not by doubling
wait_time_linear(att) == att + 1

\* wait_time = 2 ** attempt (line 452)
wait_time(att) == Pow2(att)

\* faulty variant of cache_after_failure: the failure is remembered in the cache
cache_after_failure_stored(cache, text, model, enabled) ==
    IF enabled THEN DictSet(cache, md5(text), from_text(text, None, model)) ELSE cache

\* the cache after the handler of lines 445-458, which does not touch it
cache_after_failure(cache, text, model, enabled) == cache

\* lines 417, 421 and 445-460: ollama_client.embed raises; the task sleeps
\* wait_time and goes to the next attempt, or raises EmbeddingError
service_fail(i) ==
    /\ Active
    /\ wpc[i] = "call"
    /\ embedding_cache' = cache_after_failure(embedding_cache, texts[i], embedding_model,
                                              enable_cache)
    /\ IF ~RetryAfter(attempt[i], retry_count)
         THEN Finish(i, Raised("EmbeddingError"), attempt[i] + 1, seen[i])
         ELSE IF attempt[i] + 1 < retry_count
         THEN /\ waits' = [waits EXCEPT ![i] = Append(@, wait_time(attempt[i]))]
              /\ attempt' = [attempt EXCEPT ![i] = @ + 1]
              /\ UNCHANGED <<wpc, fut, succeeded, tmp, vec, seen, last>>
         ELSE \* range(retry_count) is exhausted after the sleep: line 460
              Finish(i, ValueOf(None), attempt[i] + 1, seen[i])
    /\ UNCHANGED <<cache_files, stats, caller, phase, texts, retry_count,
                   ret, save_error, issued, nsubmitted>>
    /\ UNCHANGED helperVars
    /\ UNCHANGED batchVars
    /\ UNCHANGED outerVars

\* a direct embed_text call returns its value or raises its exception
embed_text_return ==
    /\ phase = "running"
    /\ caller = "embed_text"
    /\ wpc[1] = "done"
    /\ ret' = fut[1]
    /\ phase' = "returned"
    /\ UNCHANGED <<embedding_cache, cache_files, stats, caller, texts, retry_count,
                   save_error, succeeded, issued, nsubmitted>>
    /\ UNCHANGED helperVars
    /\ UNCHANGED batchVars
    /\ UNCHANGED taskVars
    /\ UNCHANGED outerVars

\* ------------------------------------------------------ embed_batch, by step
\* the classes  except Exception  catches; KeyboardInterrupt is not one
ExceptionClasses == {"EmbeddingError", "DataProcessingError", "VectorDBError",
                     "SearchError", "Exception"}

\* faulty variant of Handles: embed_batch without its try/except
HandlesNothing(e) == FALSE

\* whether the handler of lines 497-501 catches what future.result() raised
Handles(e) == e \in ExceptionClasses

\* what lines 494-501 store for a future's outcome
Collected(out) == IF out.kind = "value" THEN out.val ELSE None

\* faulty variant of SlotOf: outcomes are stored in the order of completion
SlotByCompletion(i, done) == done + 1

\* the index a future's outcome is stored at (future_to_index[future])
SlotOf(i, done) == i

\* lines 492-509: as_completed yields the finished future of texts[i]
collect(i) ==
    /\ phase = "running"
    /\ caller \in {"embed_batch", "build_dictionary"}
    /\ wpc[i] = "done"
    /\ i \notin collected
    /\ collected' = collected \cup {i}
    /\ IF fut[i].kind = "value" \/ Handles(fut[i].val)
         THEN /\ embeddings' = [embeddings EXCEPT ![SlotOf(i, completed)] = Collected(fut[i])]
              /\ completed' = completed + 1
              /\ postfix' = <<CountVectors(embeddings', completed'),
                              CountNone(embeddings', completed')>>
              /\ UNCHANGED <<phase, ret>>
         ELSE \* the exception leaves embed_batch
              /\ phase' = "returned"
              /\ ret' = fut[i]
              /\ UNCHANGED <<embeddings, completed, postfix>>
    /\ UNCHANGED <<embedding_cache, cache_files, stats, caller, texts, retry_count,
                   save_error, succeeded, issued, nsubmitted>>
    /\ UNCHANGED helperVars
    /\ UNCHANGED taskVars
    /\ UNCHANGED outerVars

\* KeyboardInterrupt is raised in the calling thread inside the with statement
\* of lines 481-512: except Exception (line 497) does not catch it, and the
\* executor's __exit__ waits for every submitted task, cancelling none
interrupt ==
    /\ phase = "running"
    /\ caller \in {"embed_batch", "build_dictionary"}
    /\ phase' = "interrupted"
    /\ UNCHANGED <<embedding_cache, cache_files, stats, caller, texts, retry_count,
                   ret, save_error, succeeded, issued, nsubmitted>>
    /\ UNCHANGED helperVars
    /\ UNCHANGED batchVars
    /\ UNCHANGED taskVars
    /\ UNCHANGED outerVars

\* shutdown(wait=True) has joined the threads: KeyboardInterrupt leaves
\* embed_batch, and lines 514-524 are not run
interrupt_exit ==
    /\ phase = "interrupted"
    /\ \A i \in DOMAIN wpc : wpc[i] = "done"
    /\ phase' = "returned"
    /\ ret' = Raised("KeyboardInterrupt")
    /\ UNCHANGED <<embedding_cache, cache_files, stats, caller, texts, retry_count,
                   save_error, succeeded, issued, nsubmitted>>
    /\ UNCHANGED helperVars
    /\ UNCHANGED batchVars
    /\ UNCHANGED taskVars
    /\ UNCHANGED outerVars

SaveOutcomes == {"ok", "mkdir_fails", "write_fails"}

\* _save_cache: the files afterwards.  The file is opened with 'w' and the
\* cache dumped into it; an exception on the way is caught and logged.
save_cache(files, cache, model, enabled, outcome) ==
    IF ~enabled \/ DOMAIN cache = {} THEN files
    ELSE IF outcome = "ok" THEN [files EXCEPT ![model] = FileOf(cache)]
    ELSE IF outcome = "mkdir_fails" THEN files
    ELSE [files EXCEPT ![model] = CorruptFile]

\* whether _save_cache caught an exception
save_failed(cache, enabled, outcome) ==
    enabled /\ DOMAIN cache # {} /\ outcome # "ok"

\* faulty variant of batch_result: the exception of the save leaves embed_batch
batch_result_raising(embs, failed) ==
    IF failed THEN Raised("Exception") ELSE [kind |-> "list", val |-> embs]

\* what embed_batch gives its caller at line 524; failed is whether the
\* _save_cache of line 516 caught an exception, which it logs and drops
batch_result(embs, failed) == [kind |-> "list", val |-> embs]

\* lines 511-524: every future was yielded; the cache is saved and the list returned
embed_batch_return(outcome) ==
    /\ phase = "running"
    /\ caller \in {"embed_batch", "build_dictionary"}
    /\ collected = DOMAIN texts
    /\ cache_files' = IF enable_cache
                        THEN save_cache(cache_files, embedding_cache, embedding_model,
                                        enable_cache, outcome)
                        ELSE cache_files
    /\ save_error' = save_failed(embedding_cache, enable_cache, outcome)
    /\ IF caller = "embed_batch"
         THEN ret' = batch_result(embeddings, save_error') /\ phase' = "returned"
         ELSE \* lines 569 and 625: the builder goes on with the list
              ret' = ret /\ phase' = "assemble"
    /\ UNCHANGED <<embedding_cache, stats, caller, texts, retry_count, succeeded, issued, nsubmitted>>
    /\ UNCHANGED helperVars
    /\ UNCHANGED batchVars
    /\ UNCHANGED taskVars
    /\ UNCHANGED outerVars

\* -------------------------------------------------------- BaseVectorDB.close
\* the number of close() calls the client has received after db.close(), when
\* it was n before: close() skips a client that is None (lines 110-112)
closes_after(cl, n) == IF cl = "None" THEN n ELSE n + 1

\* ------------------------------------------------------ LocalVectorDB.search
\* top_k: int = Field(default=5) of the settings
SettingsTopK == 5
\* the top_k _build_feedback_dictionary searches with
TopK == 5

\* a distance or a score is a fraction <<numerator, denominator>>
Frac(n, d) == IF d < 0 THEN <<0 - n, 0 - d>> ELSE <<n, d>>
FracLess(x, y) == x[1] * y[2] < y[1] * x[2]
FracLeq(x, y) == x[1] * y[2] <= y[1] * x[2]

\* a hit of the client: hit.id, hit.distance, hit["entity"]["metadata"]
Hit(id, distance, metadata) == [id |-> id, distance |-> distance, metadata |-> metadata]
h1 == Hit(<<"k1">>, <<1, 1>>, [insight |-> <<"b">>, aspect |-> <<"a">>])
h2 == Hit(<<"k2">>, <<0, 1>>, [insight |-> <<"a">>, aspect |-> <<"b">>])
h3 == Hit(<<"k3">>, <<-1, 1>>, [aspect |-> <<"a">>])
h4 == Hit(<<"k4">>, <<1, 2>>, << >>)
h5 == Hit(<<"k5">>, <<1, 1>>, [insight |-> <<"a">>, aspect |-> <<"a">>])
h6 == Hit(<<"k6">>, <<2, 1>>, [insight |-> <<"b">>, aspect |-> <<"b">>])

\* what the client may do on search: raise, or answer with hits in its own order
ClientRaises == [kind |-> "raise", hits |-> << >>]
Answer(hits) == [kind |-> "hits", hits |-> hits]
AnswerPool ==
    { ClientRaises, Answer(<< >>), Answer(<<h2, h1>>),
      Answer(<<h4, h2, h5, h3, h1>>), Answer(<<h3, h4, h2, h5, h6, h1>>) }

\* self.client.search(**search_kwargs), line 487: the client answers with at
\* most limit hits
client_search(limit) == {a \in AnswerPool : Len(a.hits) <= limit}

\* top_k = top_k or settings.top_k (line 453), passed on as "limit" (line 479)
limit_of(top_k) == IF top_k = 0 THEN SettingsTopK ELSE top_k

\* faulty variant of normalized_score: the last branch does not clamp
normalized_score_unclamped(metric, distance) ==
    IF metric = "COSINE" THEN Frac(distance[1] + distance[2], 2 * distance[2])
    ELSE IF metric = "L2" THEN Frac(distance[2], distance[2] + distance[1])
    ELSE distance

\* lines 496-504; the division of the L2 branch is by 1 + distance
normalized_score(metric, distance) ==
    IF metric = "COSINE" THEN Frac(distance[1] + distance[2], 2 * distance[2])
    ELSE IF metric = "L2" THEN Frac(distance[2], distance[2] + distance[1])
    ELSE IF FracLess(distance, <<0, 1>>) THEN <<0, 1>>
    ELSE IF FracLess(<<1, 1>>, distance) THEN <<1, 1>>
    ELSE distance

\* whether line 501 divides by zero
DividesByZero(metric, distance) == metric = "L2" /\ distance[1] + distance[2] = 0

\* SearchResult(id=hit.id, score=normalized_score, metadata=metadata, distance=hit.distance)
SearchResult(metric, hit) ==
    [id |-> hit.id, score |-> normalized_score(metric, hit.distance),
     metadata |-> hit.metadata, distance |-> hit.distance]

\* whether x goes before y in sort(key=score, reverse=True), when y stood
\* before x: the sort is stable, equal scores keep their order
Before(x, y) == FracLess(y.score, x.score)

\* list.sort(key=lambda x: x.score, reverse=True), line 517, as an insertion sort
RECURSIVE insert_sorted(_, _)
insert_sorted(sorted, x) ==
    IF sorted = << >> THEN <<x>>
    ELSE IF Before(x, sorted[Len(sorted)])
      THEN insert_sorted(SubSeq(sorted, 1, Len(sorted) - 1), x) \o <<sorted[Len(sorted)]>>
      ELSE sorted \o <<x>>
RECURSIVE sort_by_score(_)
sort_by_score(results) ==
    IF results = << >> THEN << >>
    ELSE insert_sorted(sort_by_score(SubSeq(results, 1, Len(results) - 1)),
                       results[Len(results)])

\* LocalVectorDB.search(collection_name, [vector], top_k) given what the client
\* answers: the list of the one query's results, or SearchError for whatever
\* is raised inside the try (no client, no collection, the client, line 501)
search(cl, colls, metric, collection_name, answer) ==
    IF cl = NoClient \/ collection_name \notin colls \/ answer.kind = "raise"
        \/ \E k \in 1..Len(answer.hits) : DividesByZero(metric, answer.hits[k].distance)
      THEN Raised("SearchError")
      ELSE ValueOf(<<sort_by_score([k \in 1..Len(answer.hits) |->
                                      SearchResult(metric, answer.hits[k])])>>)

\* --------------------------------------------------- the dictionary builders
\* faulty variant of IndexId: the number is the count of records emitted so far
IndexIdByCount(prefix, i) == <<prefix, "_", ToString(Len(dictionary))>>

\* f"{prefix}_{i}"
IndexId(prefix, i) == <<prefix, "_", ToString(i)>>

\* meta with the fields in keys copied over from item
Overlay(meta, item, keys) ==
    [k \in DOMAIN meta \cup keys |-> IF k \in keys THEN item[k] ELSE meta[k]]

\* lines 593-595
KnowledgeExtraKeys == {"description", "examples", "keywords", "confidence", "source"}

\* what time.time() reads when a run starts, and what it may read while the
\* records of a run are built
ClockStart == 1
ClockReadings == {1, 2}

\* faulty variant of knowledge_record: the id of an item without insight_id is
\* made from the clock
knowledge_record_clock_id(i, item, embedding, text, model, now) ==
    LET meta == [type |-> "knowledge",
                 aspect |-> Get(item, "aspect", << >>),
                 insight |-> Get(item, "insight", << >>),
                 sentiment |-> Get(item, "sentiment", << >>),
                 status |-> Get(item, "status", <<"active">>),
                 created_time |-> now,
                 model |-> model,
                 text_length |-> Len(text)]
    IN  [id |-> Get(item, "insight_id", IndexId("knowledge", now)),
         vector |-> embedding,
         text_for_embedding |-> text,
         metadata |-> Overlay(meta, item, KnowledgeExtraKeys \cap DOMAIN item)]

\* the record lines 580-602 build for data[i], i counted from 0, when
\* time.time() reads now; embedding_dim is not modelled
knowledge_record(i, item, embedding, text, model, now) ==
    LET meta == [type |-> "knowledge",
                 aspect |-> Get(item, "aspect", << >>),
                 insight |-> Get(item, "insight", << >>),
                 sentiment |-> Get(item, "sentiment", << >>),
                 status |-> Get(item, "status", <<"active">>),
                 created_time |-> now,
                 model |-> model,
                 text_length |-> Len(text)]
    IN  [id |-> Get(item, "insight_id", IndexId("knowledge", i)),
         vector |-> embedding,
         text_for_embedding |-> text,
         metadata |-> Overlay(meta, item, KnowledgeExtraKeys \cap DOMAIN item)]

\* lines 639-657: the mapping for what local_db.search returned or raised
mapped_perspectives_of(out) ==
    IF out.kind = "raise" THEN << >>
    ELSE [j \in 1..Len(out.val[1]) |->
            [id |-> out.val[1][j].id, score |-> out.val[1][j].score,
             insight |-> Get(out.val[1][j].metadata, "insight", << >>),
             aspect |-> Get(out.val[1][j].metadata, "aspect", << >>)]]

\* the keys lines 677-679 copy from the item into meta
PassthroughKeys(item) == DOMAIN item \ {"raw_text", "summary"}

\* the record lines 635-686 build for data[i], i counted from 0, when
\* time.time() reads now; embedding_dim is not modelled
feedback_record(i, item, embedding, text, model, out, now) ==
    LET mapped_perspectives == mapped_perspectives_of(out)
        meta == [type |-> "feedback",
                 raw_text |-> Get(item, "raw_text", << >>),
                 summary |-> Get(item, "summary", << >>),
                 mapped_perspectives |-> mapped_perspectives,
                 created_time |-> now,
                 model |-> model,
                 text_length |-> Len(text),
                 match_count |-> Len(mapped_perspectives)]
    IN  [id |-> Get(item, "fb_id", IndexId("feedback", i)),
         vector |-> embedding,
         text_for_embedding |-> text,
         metadata |-> Overlay(meta, item, PassthroughKeys(item))]

\* no search was made for the item
NoSearch == [kind |-> "none", val |-> << >>, calls |-> 0]

\* faulty variant of search_calls: a search that raised is issued once more
search_calls_retrying(out) == IF out.kind = "raise" THEN 2 ELSE 1

\* the calls of local_db.search one turn of the loop makes for an item it does
\* not skip: the one of line 640, outside any loop; the handler of lines
\* 652-656 answers its failure with an empty list
search_calls(out) == 1

\* the texts lines 563-566 and 617-622 prepare
texts_of(dt, d) ==
    [k \in 1..Len(d) |-> IF dt = "knowledge" THEN knowledge_text_of(d[k])
                                              ELSE feedback_text_of(d[k])]

\* build_dictionary(dt, d, local_db), up to the submission of the batch: no
\* data returns [], an unknown data type raises DataProcessingError
build_dictionary_call(dt, d, limit) ==
    /\ phase \in {"idle", "returned"}
    /\ nsubmitted + Len(d) <= limit
    /\ caller' = "build_dictionary"
    /\ data_type' = dt
    /\ data' = d
    /\ di' = 1
    /\ dictionary' = << >>
    /\ skipped' = 0
    /\ searched' = << >>
    /\ IF d = << >>
         THEN /\ submit_batch(<< >>)
              /\ phase' = "returned"
              /\ ret' = [kind |-> "list", val |-> << >>]
         ELSE IF dt \notin {"knowledge", "feedback"}
         THEN /\ submit_batch(<< >>)
              /\ phase' = "returned"
              /\ ret' = Raised("DataProcessingError")
         ELSE /\ submit_batch(texts_of(dt, d))
              /\ phase' = "running"
              /\ ret' = NoReturn
    /\ UNCHANGED dbVars
    /\ UNCHANGED mainVars
    /\ UNCHANGED unitVars

\* faulty variant of Skips: no item is skipped
SkipsNothing(embedding) == FALSE

\* lines 574 and 630: whether the item of this embedding is skipped
Skips(embedding) == embedding = None

\* one turn of the loop of lines 573-602 or 629-686, on data[di]; answer is
\* what the client answers if local_db.search gets to ask it, now what
\* time.time() reads
build_item(answer, now) ==
    /\ caller = "build_dictionary"
    /\ phase = "assemble"
    /\ di <= Len(data)
    /\ di' = di + 1
    /\ IF Skips(embeddings[di])
         THEN /\ skipped' = skipped + 1
              /\ searched' = Append(searched, NoSearch)
              /\ UNCHANGED dictionary
         ELSE IF data_type = "knowledge"
         THEN /\ dictionary' = Append(dictionary,
                    knowledge_record(di - 1, data[di], embeddings[di], texts[di],
                                     embedding_model, now))
              /\ searched' = Append(searched, NoSearch)
              /\ UNCHANGED skipped
         ELSE LET out == search(client, collections, similarity_metric, "knowledge", answer)
              IN  /\ dictionary' = Append(dictionary,
                        feedback_record(di - 1, data[di], embeddings[di], texts[di],
                                        embedding_model, out, now))
                  /\ searched' = Append(searched, [kind |-> out.kind, val |-> out.val,
                                                   calls |-> search_calls(out)])
                  /\ UNCHANGED skipped
    /\ UNCHANGED <<embedding_cache, cache_files, stats, caller, phase, texts, retry_count,
                   ret, save_error, succeeded, issued, nsubmitted, data_type, data>>
    /\ UNCHANGED helperVars
    /\ UNCHANGED batchVars
    /\ UNCHANGED taskVars
    /\ UNCHANGED dbVars
    /\ UNCHANGED mainVars
    /\ UNCHANGED unitVars

\* lines 604-608 and 688-692: the loop is over and the list is returned
build_dictionary_return ==
    /\ caller = "build_dictionary"
    /\ phase = "assemble"
    /\ di > Len(data)
    /\ ret' = [kind |-> "list", val |-> dictionary]
    /\ phase' = "returned"
    /\ UNCHANGED <<embedding_cache, cache_files, stats, caller, texts, retry_count,
                   save_error, succeeded, issued, nsubmitted>>
    /\ UNCHANGED helperVars
    /\ UNCHANGED batchVars
    /\ UNCHANGED taskVars
    /\ UNCHANGED outerVars

\* ------------------------------------------------------------ specification
\* the lists of at most n texts
BatchInputs(n) == UNION {[1..k -> Texts] : k \in 0..n}

Next ==
    \/ Construct(embedding_model, enable_cache, max_workers)
    \/ \E m \in Models : SetEmbeddingModel(m)
    \/ \E ts \in BatchInputs(MaxTexts) : embed_batch_call(ts, MaxTexts)
    \/ \E t \in Texts \cup {EmptyText}, n \in RetryCounts : embed_text_call(t, n, MaxTexts)
    \/ \E i \in DOMAIN wpc : embed_text_begin(i)
    \/ \E i \in DOMAIN wpc : hit_store(i)
    \/ \E i \in DOMAIN wpc : miss_store(i)
    \/ \E i \in DOMAIN wpc, k \in Variants : service_ok(i, k)
    \/ \E i \in DOMAIN wpc : service_fail(i)
    \/ embed_text_return
    \/ \E i \in DOMAIN wpc : collect(i)
    \/ \E o \in SaveOutcomes : embed_batch_return(o)

Spec == Init /\ [][Next]_vars

\* one embed_batch call on a new helper, with the scheduling the claim of
\* termination assumes: a worker that can take a step takes one, a call to the
\* embedding service returns or raises, the caller's thread runs
NextLive ==
    \/ \E ts \in BatchInputs(MaxTexts) : nsubmitted = 0 /\ embed_batch_call(ts, MaxTexts)
    \/ \E i \in DOMAIN wpc : embed_text_begin(i)
    \/ \E i \in DOMAIN wpc : hit_store(i)
    \/ \E i \in DOMAIN wpc : miss_store(i)
    \/ \E i \in DOMAIN wpc, k \in Variants : service_ok(i, k)
    \/ \E i \in DOMAIN wpc : service_fail(i)
    \/ \E i \in DOMAIN wpc : collect(i)
    \/ \E o \in SaveOutcomes : embed_batch_return(o)

FairLive ==
    /\ WF_vars(\E i \in DOMAIN wpc : embed_text_begin(i))
    /\ WF_vars(\E i \in DOMAIN wpc : hit_store(i))
    /\ WF_vars(\E i \in DOMAIN wpc : miss_store(i))
    /\ WF_vars(\E i \in DOMAIN wpc : (service_fail(i) \/ \E k \in Variants : service_ok(i, k)))
    /\ WF_vars(\E i \in DOMAIN wpc : collect(i))
    /\ WF_vars(\E o \in SaveOutcomes : embed_batch_return(o))

SpecLive == Init /\ [][NextLive]_vars /\ FairLive

\* the behaviours of one helper with the cache enabled whose calls all embed
\* the same text
RaceText == <<"a">>

InitRace ==
    /\ Init
    /\ enable_cache
    /\ max_workers = 2

NextRace ==
    \/ \E k \in 1..RaceTexts : embed_batch_call([j \in 1..k |-> RaceText], RaceTexts)
    \/ \E i \in DOMAIN wpc : embed_text_begin(i)
    \/ \E i \in DOMAIN wpc : hit_store(i)
    \/ \E i \in DOMAIN wpc : miss_store(i)
    \/ \E i \in DOMAIN wpc, k \in Variants : service_ok(i, k)
    \/ \E i \in DOMAIN wpc : service_fail(i)
    \/ \E i \in DOMAIN wpc : collect(i)
    \/ \E o \in SaveOutcomes : embed_batch_return(o)

SpecRace == InitRace /\ [][NextRace]_vars

\* the behaviours of one helper whose batches the caller may interrupt
NextCancel ==
    \/ \E ts \in BatchInputs(MaxTexts) : embed_batch_call(ts, MaxTexts)
    \/ \E i \in DOMAIN wpc : embed_text_begin(i)
    \/ \E i \in DOMAIN wpc : hit_store(i)
    \/ \E i \in DOMAIN wpc : miss_store(i)
    \/ \E i \in DOMAIN wpc, k \in Variants : service_ok(i, k)
    \/ \E i \in DOMAIN wpc : service_fail(i)
    \/ \E i \in DOMAIN wpc : collect(i)
    \/ \E o \in SaveOutcomes : embed_batch_return(o)
    \/ interrupt
    \/ interrupt_exit

SpecCancel == Init /\ [][NextCancel]_vars

\* the behaviours of one helper building dictionaries against a database that
\* is connected and holds the knowledge collection, or is not connected
DataTypes == {"knowledge", "feedback", "other"}
ItemsOf(dt) == IF dt = "knowledge" THEN KnowledgeItems ELSE FeedbackItems
DataInputs(dt, n) == UNION {[1..k -> ItemsOf(dt)] : k \in 0..n}

InitDict ==
    /\ InitHelper
    /\ InitRun
    /\ InitUnit
    /\ max_workers = 1
    /\ client \in {NoClient, "MilvusClient"}
    /\ collections = IF client = NoClient THEN {} ELSE {"knowledge"}
    /\ similarity_metric \in IF client = NoClient THEN {DefaultMetric} ELSE Metrics

NextDict ==
    \/ \E dt \in DataTypes : \E d \in DataInputs(dt, MaxItems) :
          nsubmitted = 0 /\ build_dictionary_call(dt, d, MaxItems)
    \/ \E i \in DOMAIN wpc : embed_text_begin(i)
    \/ \E i \in DOMAIN wpc : hit_store(i)
    \/ \E i \in DOMAIN wpc : miss_store(i)
    \/ \E i \in DOMAIN wpc : service_ok(i, 1)
    \/ \E i \in DOMAIN wpc : service_fail(i)
    \/ \E i \in DOMAIN wpc : collect(i)
    \/ \E o \in SaveOutcomes : embed_batch_return(o)
    \/ \E answer \in client_search(limit_of(TopK)) : build_item(answer, ClockStart)
    \/ build_dictionary_return

SpecDict == InitDict /\ [][NextDict]_vars

\* the builders with a clock that moves: a connected database with the default
\* metric, the cache enabled, and any reading of the clock at each record
InitClock ==
    /\ InitDict
    /\ enable_cache
    /\ client = "MilvusClient"
    /\ similarity_metric = DefaultMetric

NextClock ==
    \/ \E dt \in DataTypes : \E d \in DataInputs(dt, MaxItems) :
          nsubmitted = 0 /\ build_dictionary_call(dt, d, MaxItems)
    \/ \E i \in DOMAIN wpc : embed_text_begin(i)
    \/ \E i \in DOMAIN wpc : hit_store(i)
    \/ \E i \in DOMAIN wpc : miss_store(i)
    \/ \E i \in DOMAIN wpc : service_ok(i, 1)
    \/ \E i \in DOMAIN wpc : service_fail(i)
    \/ \E i \in DOMAIN wpc : collect(i)
    \/ \E o \in SaveOutcomes : embed_batch_return(o)
    \/ \E answer \in client_search(limit_of(TopK)) : \E now \in ClockReadings :
          build_item(answer, now)
    \/ build_dictionary_return

SpecClock == InitClock /\ [][NextClock]_vars

\* ------------------------------------------------- the text functions alone
\* length of the strings handed to clean_text
MaxChars == 5

\* everything but op and trail
programVars == <<embedding_cache, cache_files, stats, caller, phase, texts, retry_count,
                 ret, save_error, succeeded, issued, nsubmitted, helperVars, batchVars,
                 taskVars, dbVars, dictVars, mainVars, client_closes, runVars>>

\* the characters of the model and the strings of at most n of them
Alphabet == Letters \cup Whitespace \cup Removed \cup Punctuation
Strings(n) == UNION {[1..k -> Alphabet] : k \in 0..n}

\* values of a field of an item: empty, whitespace, dirty and clean text
FieldValues == {<< >>, <<" ">>, <<"a", "#">>, <<"b">>}
\* knowledge items with any of aspect, insight and sentiment, and two items
\* that have the other fields as well
TextFields == {"aspect", "insight", "sentiment"}
TextItems ==
    UNION {[fs -> FieldValues] : fs \in SUBSET TextFields}
    \cup { [aspect |-> <<"a">>, insight |-> <<"b">>, sentiment |-> <<"a">>,
            description |-> <<"b", " ", "a">>, examples |-> <<<<"a">>, <<"b">>>>,
            keywords |-> <<<<"b">>, <<"a">>>>],
           [description |-> <<"a">>, examples |-> <<<<"a">>, << >>, <<"b">>, <<"a">>, <<"b">>>>,
            keywords |-> <<<< >>>>] }
\* summary=None, the default, is the empty text here
Summaries == {<< >>, <<" ">>, <<"b">>, <<"#", "a">>}
RawTexts == {<< >>, <<" ">>, <<"#">>, <<"a">>, <<"a", " ", "b">>}

\* helper.clean_text(t)
clean_text_call(t) ==
    /\ op = "none"
    /\ op' = "clean_text"
    /\ trail' = <<t, clean_text(t)>>
    /\ UNCHANGED programVars

\* helper.clean_text(r) for the r the call before returned
clean_text_again ==
    /\ op = "clean_text"
    /\ Len(trail) = 2
    /\ trail' = Append(trail, clean_text(trail[2]))
    /\ UNCHANGED <<op, programVars>>

\* helper.build_knowledge_text(item)
build_knowledge_text_call(item) ==
    /\ op = "none"
    /\ op' = "build_knowledge_text"
    /\ trail' = <<item, build_knowledge_text(item)>>
    /\ UNCHANGED programVars

\* helper.build_feedback_text(raw_text, summary)
build_feedback_text_call(raw_text, summary) ==
    /\ op = "none"
    /\ op' = "build_feedback_text"
    /\ trail' = <<[raw_text |-> raw_text, summary |-> summary],
                  build_feedback_text(raw_text, summary)>>
    /\ UNCHANGED programVars

InitText ==
    /\ Init
    /\ enable_cache
    /\ max_workers = 1

NextText ==
    \/ \E t \in Strings(MaxChars) : clean_text_call(t)
    \/ clean_text_again
    \/ \E item \in TextItems : build_knowledge_text_call(item)
    \/ \E raw_text \in RawTexts, summary \in Summaries :
          build_feedback_text_call(raw_text, summary)

SpecText == InitText /\ [][NextText]_vars

\* ------------------------------------------- the life of a LocalVectorDB alone
\* number of calls made on one LocalVectorDB, the constructor included
MaxCalls == 5

\* everything but op, trail, client and client_closes
aroundDBVars == <<embedding_cache, cache_files, stats, caller, phase, texts, retry_count,
                  ret, save_error, succeeded, issued, nsubmitted, helperVars, batchVars,
                  taskVars, collections, similarity_metric, dictVars, mainVars,
                  runVars>>

\* VectorDBError and its subclasses (lines 26-43)
VectorDBErrors == {"VectorDBError", "ConnectionError", "CollectionError", "SearchError"}

\* a call on the database: whether MilvusClient(...) fails if called, what the
\* call raised or let through, how often it called client.close() and the
\* client the database holds after it
DBCall(call, client_fails, raised, closes, cl) ==
    [call |-> call, client_fails |-> client_fails, raised |-> raised, closes |-> closes,
     client_after |-> cl]

\* whether the calls so far have entered a with block and not left it
RECURSIVE InWith(_)
InWith(tr) ==
    IF tr = << >> THEN FALSE
    ELSE IF tr[Len(tr)].call = "__enter__" THEN TRUE
    ELSE IF tr[Len(tr)].call = "__exit__" THEN FALSE
    ELSE InWith(SubSeq(tr, 1, Len(tr) - 1))

\* LocalVectorDB(path), lines 78-81 and 189-198: client_fails is whether
\* MilvusClient(...) would raise, which the constructor does not call
LocalVectorDB_init(client_fails) ==
    /\ op = "none"
    /\ op' = "LocalVectorDB"
    /\ client' = NoClient
    /\ trail' = <<DBCall("__init__", client_fails, "None", 0, NoClient)>>
    /\ UNCHANGED <<client_closes, aroundDBVars>>

\* db.connect(), lines 200-212
db_connect(client_fails) ==
    /\ op = "LocalVectorDB"
    /\ Len(trail) < MaxCalls
    /\ client' = IF client_fails THEN client ELSE "MilvusClient"
    /\ trail' = Append(trail, DBCall("connect", client_fails,
                                     IF client_fails THEN "ConnectionError" ELSE "None",
                                     0, client'))
    /\ UNCHANGED <<op, client_closes, aroundDBVars>>

\* "with db:", lines 82-84: __enter__ returns self
db_enter ==
    /\ op = "LocalVectorDB"
    /\ Len(trail) < MaxCalls
    /\ ~InWith(trail)
    /\ trail' = Append(trail, DBCall("__enter__", FALSE, "None", 0, client))
    /\ UNCHANGED <<op, client, client_closes, aroundDBVars>>

\* the with block ends, normally (exc = "None") or by exception, lines 86-88 and
\* close(), lines 108-115; __exit__ returns None, the exception goes on
db_exit(exc) ==
    /\ op = "LocalVectorDB"
    /\ Len(trail) < MaxCalls
    /\ InWith(trail)
    /\ client_closes' = closes_after(client, client_closes)
    /\ trail' = Append(trail, DBCall("__exit__", FALSE, exc,
                                     closes_after(client, 0), client))
    /\ UNCHANGED <<op, client, aroundDBVars>>

\* db.close(), lines 108-115
db_close ==
    /\ op = "LocalVectorDB"
    /\ Len(trail) < MaxCalls
    /\ client_closes' = closes_after(client, client_closes)
    /\ trail' = Append(trail, DBCall("close", FALSE, "None", closes_after(client, 0), client))
    /\ UNCHANGED <<op, client, aroundDBVars>>

InitDB ==
    /\ Init
    /\ enable_cache
    /\ max_workers = 1

NextDB ==
    \/ \E client_fails \in BOOLEAN : LocalVectorDB_init(client_fails)
    \/ \E client_fails \in BOOLEAN : db_connect(client_fails)
    \/ db_enter
    \/ \E exc \in {"None", "Exception"} : db_exit(exc)
    \/ db_close

SpecDB == InitDB /\ [][NextDB]_vars

\* ------------------------------------------------- LocalVectorDB.upsert alone
\* length of the entity lists handed to upsert
MaxEntities == 2

\* batch_size: int = Field(default=100, ...)
SettingsBatchSize == 100
\* batch_size = batch_size or settings.batch_size, line 309; 0 stands for None
batch_size_of(batch_size) == IF batch_size = 0 THEN SettingsBatchSize ELSE batch_size
BatchSizes == {0, 1, 2}

\* entities: two with the same id and another content, one with an id of its
\* own, one without the key "id"
Entity(id, text) ==
    [id |-> id, vector |-> [text |-> text, model |-> "m1", variant |-> 1],
     text_for_embedding |-> text, metadata |-> [type |-> "knowledge"]]
UpsertEntities ==
    { Entity(<<"k1">>, <<"a">>), Entity(<<"k1">>, <<"b">>), Entity(<<"k2">>, <<"a">>),
      [vector |-> None, text_for_embedding |-> <<"a">>, metadata |-> [type |-> "knowledge"]] }
EntityLists(n) == UNION {[1..k -> UpsertEntities] : k \in 0..n}

\* lines 322-329: the four fields of an item, item["id"] raising KeyError
\* when the item has none
HasFields(item) == {"id", "vector", "text_for_embedding", "metadata"} \subseteq DOMAIN item
insert_data_of(batch) ==
    [k \in 1..Len(batch) |->
       [id |-> batch[k].id, vector |-> batch[k].vector,
        text_for_embedding |-> batch[k].text_for_embedding, metadata |-> batch[k].metadata]]

\* self.client.insert(collection_name, insert_data), line 333, when it does not
\* raise: MilvusClient.insert adds the rows, whatever ids the collection holds
client_insert(rows, insert_data) == rows \o insert_data

\* total_batches, line 316, and entities[i:i + batch_size] of batch b, counted
\* from 1
total_batches(n, bs) == (n + bs - 1) \div bs
Batch(entities, bs, b) ==
    SubSeq(entities, (b - 1) * bs + 1,
           IF b * bs < Len(entities) THEN b * bs ELSE Len(entities))

\* what the client does with the batches: it takes each or raises; with no
\* client (self.client is None) or a batch that has an item without a field,
\* the try of lines 320-359 always ends in its handler
BatchOutcomes(cl, entities, bs) ==
    { o \in [1..total_batches(Len(entities), bs) -> {"ok", "raise"}] :
        \A b \in DOMAIN o :
           (cl = NoClient \/ \E k \in 1..Len(Batch(entities, bs, b)) :
                                 ~HasFields(Batch(entities, bs, b)[k]))
             => o[b] = "raise" }

\* faulty variant of batch_after_failure: the loop ends at a batch that failed
batch_after_failure_stopping(b, n) == n + 1

\* the batch the loop goes on with after batch b of n failed: the continue of
\* line 358
batch_after_failure(b, n) == b + 1

\* the loop of lines 318-359 from batch b on; st holds the rows of the
\* collection, successful_inserts and the batches handed to the client or
\* failed before
RECURSIVE upsert_batches(_, _, _, _, _)
upsert_batches(st, entities, bs, outcomes, b) ==
    LET n == total_batches(Len(entities), bs)
        batch == Batch(entities, bs, b)
    IN  IF b > n THEN st
        ELSE IF outcomes[b] = "ok"
          THEN upsert_batches(
                 [rows |-> client_insert(st.rows, insert_data_of(batch)),
                  successful_inserts |-> st.successful_inserts + Len(batch),
                  attempted |-> Append(st.attempted, batch)],
                 entities, bs, outcomes, b + 1)
          ELSE upsert_batches([st EXCEPT !.attempted = Append(st.attempted, batch)],
                              entities, bs, outcomes, batch_after_failure(b, n))

\* LocalVectorDB.upsert(entities, collection_name, batch_size) on a collection
\* holding rows: the rows after it, the batches it went through and what it
\* returned
upsert(rows, entities, batch_size, outcomes) ==
    LET bs == batch_size_of(batch_size)
        st == upsert_batches([rows |-> rows, successful_inserts |-> 0, attempted |-> << >>],
                             entities, bs, outcomes, 1)
    IN  [entities |-> entities, batch_size |-> bs, outcomes |-> outcomes,
         before |-> rows, rows |-> st.rows, attempted |-> st.attempted,
         successful_inserts |-> st.successful_inserts,
         ret |-> IF entities = << >> THEN ValueOf(TRUE)
                 ELSE ValueOf(st.successful_inserts > 0)]

\* db.upsert(entities, "knowledge", batch_size) on an empty collection
upsert_call(entities, batch_size, outcomes) ==
    /\ op = "none"
    /\ op' = "upsert"
    /\ trail' = <<upsert(<< >>, entities, batch_size, outcomes)>>
    /\ UNCHANGED programVars

\* the same call once more, on the collection as the first call left it
upsert_again(outcomes) ==
    /\ op = "upsert"
    /\ Len(trail) = 1
    /\ trail' = Append(trail, upsert(trail[1].rows, trail[1].entities,
                                     trail[1].batch_size, outcomes))
    /\ UNCHANGED <<op, programVars>>

InitUpsert ==
    /\ InitHelper
    /\ InitRun
    /\ InitUnit
    /\ enable_cache
    /\ max_workers = 1
    /\ client \in {NoClient, "MilvusClient"}
    /\ collections = IF client = NoClient THEN {} ELSE {"knowledge"}
    /\ similarity_metric = DefaultMetric

NextUpsert ==
    \/ \E entities \in EntityLists(MaxEntities), batch_size \in BatchSizes :
          \E outcomes \in BatchOutcomes(client, entities, batch_size_of(batch_size)) :
             upsert_call(entities, batch_size, outcomes)
    \/ /\ op = "upsert"
       /\ \E outcomes \in BatchOutcomes(client, trail[1].entities, trail[1].batch_size) :
             upsert_again(outcomes)

SpecUpsert == InitUpsert /\ [][NextUpsert]_vars

\* --------------------------------------------------------------------- main
\* number of items in each of the two data directories of a run
MaxRunItems == 2

\* everything of the helper: main() is modelled by what its calls return
pipelineVars == <<embedding_cache, cache_files, stats, caller, phase, texts, retry_count,
                  ret, save_error, succeeded, issued, nsubmitted, helperVars,
                  batchVars, taskVars, dictVars, op, trail>>

\* the values of processor.stats.status: "chenggong" is success,
\* "bufen chenggong" partial success, "shibai" failure
Success == "chenggong"
PartialSuccess == "bufen chenggong"
Failure == "shibai"

\* main() returns False from where it is
ReturnFalse ==
    /\ main_ret' = "False"
    /\ mpc' = "done"

\* lines 388-394: the processor is set up and get_vector_db() connects, or one
\* of them raises and main() returns False
main_start(connected) ==
    /\ mpc = "start"
    /\ IF connected
         THEN /\ client' = "MilvusClient"
              /\ mpc' = "health"
              /\ UNCHANGED main_ret
         ELSE /\ ReturnFalse
              /\ UNCHANGED client
    /\ UNCHANGED <<collections, similarity_metric, errors, knowledge_records,
                   feedback_records, status, dictionaries, failed_items, db_closed, client_closes>>
    /\ UNCHANGED pipelineVars
    /\ UNCHANGED runVars

\* faulty variant of step_after: the feedback step runs before the knowledge step
step_after_feedback_first(step) ==
    IF step = "helper" THEN "feedback"
    ELSE IF step = "feedback" THEN "knowledge"
    ELSE "save"

\* lines 401-413: the steps of main() in the order its awaits run them
step_after(step) ==
    IF step = "helper" THEN "knowledge"
    ELSE IF step = "knowledge" THEN "feedback"
    ELSE "save"

\* lines 397-398: processor.health_check(db)
main_health_check(healthy) ==
    /\ mpc = "health"
    /\ IF healthy
         THEN mpc' = "helper" /\ UNCHANGED main_ret
         ELSE ReturnFalse
    /\ UNCHANGED <<errors, knowledge_records, feedback_records, status, dictionaries,
                   failed_items, db_closed, client_closes>>
    /\ UNCHANGED dbVars
    /\ UNCHANGED pipelineVars
    /\ UNCHANGED runVars

\* lines 401-404: DataHelper(max_workers=settings.max_workers, enable_cache=True)
main_helper ==
    /\ mpc = "helper"
    /\ mpc' = step_after("helper")
    /\ UNCHANGED <<errors, knowledge_records, feedback_records, status, dictionaries,
                   main_ret, failed_items, db_closed, client_closes>>
    /\ UNCHANGED dbVars
    /\ UNCHANGED pipelineVars
    /\ UNCHANGED runVars

\* what load_data_from_directory does: it raises, or returns the records of the
\* items that embedded; flags[k] tells whether item k embedded
LoadRaises == [kind |-> "raise", flags |-> << >>]
Loaded(flags) == [kind |-> "list", flags |-> flags]
LoadOutcomes(n) ==
    {LoadRaises} \cup {Loaded(f) : f \in UNION {[1..k -> BOOLEAN] : k \in 0..n}}
\* len() of the list build_dictionary returns for these items
RecordCount(flags) == Cardinality({k \in 1..Len(flags) : flags[k]})

CreateOutcomes == {"True", "raise"}
UpsertOutcomes == {"True", "False", "raise"}

\* process_knowledge_base / process_feedback_data up to their return: the
\* errors appended, the record count, the list returned and the collections
process_errors(load, created, upserted) ==
    IF load.kind = "raise" THEN <<"processing failed">>
    ELSE IF RecordCount(load.flags) = 0 THEN <<"data load failed">>
    ELSE IF created = "raise" THEN <<"processing failed">>
    ELSE IF upserted = "False" THEN <<"data insert failed">>
    ELSE IF upserted = "raise" THEN <<"processing failed">>
    ELSE << >>
process_records(before, load) ==
    IF load.kind = "list" /\ RecordCount(load.flags) > 0
      THEN RecordCount(load.flags) ELSE before
process_collections(colls, name, load, created) ==
    IF load.kind = "list" /\ RecordCount(load.flags) > 0 /\ created = "True"
      THEN colls \cup {name} ELSE colls
process_result(load, created, upserted) ==
    IF process_errors(load, created, upserted) = << >> THEN "list" ELSE "None"
FailedIn(load) == Len(load.flags) - RecordCount(load.flags)

\* the number of records db.upsert stored before it returned or raised
\* (vector_db.py lines 318-371): none when upsert was not reached or returned
\* False, at least one when it returned True
InsertedCounts(load, created, upserted) ==
    IF load.kind = "raise" \/ RecordCount(load.flags) = 0 \/ created = "raise" THEN {0}
    ELSE IF upserted = "True" THEN 1..RecordCount(load.flags)
    ELSE IF upserted = "False" THEN {0}
    ELSE 0..RecordCount(load.flags)

\* data_helper.py lines 638-657: one entry per embedded feedback item, holding
\* what its db.search(collection_name="knowledge") found the knowledge step and
\* the "knowledge" collection to be
knowledge_searches(load, step, colls) ==
    [k \in 1..RecordCount(load.flags) |->
        [finished |-> step.finished, succeeded |-> step.succeeded,
         inserted |-> step.inserted, rows |-> step.rows,
         collection |-> "knowledge" \in colls]]

\* line 407: processor.process_knowledge_base(data_helper, db)
process_knowledge_base(load, created, upserted, inserted) ==
    /\ mpc = "knowledge"
    /\ mpc' = step_after("knowledge")
    /\ inserted \in InsertedCounts(load, created, upserted)
    /\ knowledge_step' = [finished |-> TRUE,
                          succeeded |-> process_result(load, created, upserted) = "list",
                          inserted |-> inserted,
                          rows |-> knowledge_step.rows + inserted]
    /\ UNCHANGED search_log
    /\ errors' = errors \o process_errors(load, created, upserted)
    /\ knowledge_records' = process_records(knowledge_records, load)
    /\ collections' = process_collections(collections, "knowledge", load, created)
    /\ dictionaries' = [dictionaries EXCEPT
                            !.knowledge = process_result(load, created, upserted)]
    /\ failed_items' = failed_items + FailedIn(load)
    /\ UNCHANGED <<client, similarity_metric, feedback_records, status, main_ret, db_closed, client_closes>>
    /\ UNCHANGED pipelineVars

\* line 410: processor.process_feedback_data(data_helper, db)
process_feedback_data(load, created, upserted) ==
    /\ mpc = "feedback"
    /\ mpc' = step_after("feedback")
    /\ search_log' = search_log \o knowledge_searches(load, knowledge_step, collections)
    /\ UNCHANGED knowledge_step
    /\ errors' = errors \o process_errors(load, created, upserted)
    /\ feedback_records' = process_records(feedback_records, load)
    /\ collections' = process_collections(collections, "feedback", load, created)
    /\ dictionaries' = [dictionaries EXCEPT
                            !.feedback = process_result(load, created, upserted)]
    /\ failed_items' = failed_items + FailedIn(load)
    /\ UNCHANGED <<client, similarity_metric, knowledge_records, status, main_ret, db_closed, client_closes>>
    /\ UNCHANGED pipelineVars

\* line 413: processor.save_processed_data; a failure is appended to the errors
save_processed_data(saved) ==
    /\ mpc = "save"
    /\ mpc' = "summary"
    /\ errors' = IF saved THEN errors ELSE Append(errors, "save failed")
    /\ UNCHANGED <<knowledge_records, feedback_records, status, dictionaries, main_ret,
                   failed_items, db_closed, client_closes>>
    /\ UNCHANGED dbVars
    /\ UNCHANGED pipelineVars
    /\ UNCHANGED runVars

\* faulty variant of final_status: any error makes the run a failure
final_status_strict(errs, knowledge, feedback) ==
    IF errs = << >> THEN Success ELSE Failure

\* main.py lines 315-321
final_status(errs, knowledge, feedback) ==
    IF errs = << >> THEN Success
    ELSE IF knowledge > 0 \/ feedback > 0 THEN PartialSuccess
    ELSE Failure

\* line 416: processor.display_final_summary(db, data_helper)
display_final_summary ==
    /\ mpc = "summary"
    /\ mpc' = "close"
    /\ status' = final_status(errors, knowledge_records, feedback_records)
    /\ UNCHANGED <<errors, knowledge_records, feedback_records, dictionaries, main_ret,
                   failed_items, db_closed, client_closes>>
    /\ UNCHANGED dbVars
    /\ UNCHANGED pipelineVars
    /\ UNCHANGED runVars

\* lines 421-423: db.close() and the return
main_return ==
    /\ mpc = "close"
    /\ mpc' = "done"
    /\ db_closed' = TRUE
    /\ client_closes' = closes_after(client, client_closes)
    /\ main_ret' = IF status \in {Success, PartialSuccess} THEN "True" ELSE "False"
    /\ UNCHANGED <<errors, knowledge_records, feedback_records, status, dictionaries,
                   failed_items>>
    /\ UNCHANGED dbVars
    /\ UNCHANGED pipelineVars
    /\ UNCHANGED runVars

NextMain ==
    \/ \E connected \in BOOLEAN : main_start(connected)
    \/ \E healthy \in BOOLEAN : main_health_check(healthy)
    \/ main_helper
    \/ \E load \in LoadOutcomes(MaxRunItems), c \in CreateOutcomes, u \in UpsertOutcomes,
          inserted \in 0..MaxRunItems :
          process_knowledge_base(load, c, u, inserted)
    \/ \E load \in LoadOutcomes(MaxRunItems), c \in CreateOutcomes, u \in UpsertOutcomes :
          process_feedback_data(load, c, u)
    \/ \E saved \in BOOLEAN : save_processed_data(saved)
    \/ display_final_summary
    \/ main_return

SpecMain == Init /\ [][NextMain]_vars

\* =================================================================== claims
BatchReturned == caller = "embed_batch" /\ phase = "returned"
OutcomeOf(i) == IF fut[i].kind = "value" THEN fut[i].val ELSE None

\* C1: embed_batch returns a list of exactly len(texts) elements, and element i
\* is the outcome (vector or None) of the task that embedded texts[i], for
\* every order in which the tasks complete.
C1_OrderPreserved ==
    /\ (caller = "embed_batch" /\ phase = "running") =>
          /\ Len(embeddings) = Len(texts)
          /\ \A i \in DOMAIN texts :
                embeddings[i] = IF i \in collected THEN OutcomeOf(i) ELSE None
    /\ BatchReturned =>
          /\ ret.kind = "list"
          /\ Len(ret.val) = Len(texts)
          /\ \A i \in DOMAIN texts :
                /\ ret.val[i] = OutcomeOf(i)
                /\ ret.val[i] # None => ret.val[i].text = texts[i]

\* two different texts both embedded, the task of the first one finishing last
C1_Witness ==
    /\ BatchReturned
    /\ Len(texts) = 2
    /\ texts[1] # texts[2]
    /\ ret.val[1] # None
    /\ ret.val[2] # None
    /\ last.index = 1

\* C2: when embed_text raises EmbeddingError for some of the texts, embed_batch
\* still returns its list; among the texts that are not blank the list holds
\* None at exactly the indices whose task raised, and at every other index the
\* vector that task got for that text.
C2_PartialFailure ==
    BatchReturned =>
       /\ ret.kind = "list"
       /\ \A i \in DOMAIN texts : ~IsBlank(texts[i]) =>
             /\ (fut[i].kind = "raise") <=> (ret.val[i] = None)
             /\ fut[i].kind = "value" =>
                   /\ ret.val[i] = fut[i].val
                   /\ ret.val[i].text = texts[i]
                   /\ ret.val[i].model = embedding_model

\* a batch of two whose first task raised and whose second got a vector
C2_Witness ==
    /\ BatchReturned
    /\ Len(texts) = 2
    /\ fut[1] = Raised("EmbeddingError")
    /\ fut[2].kind = "value"
    /\ ret.val[2] # None
    /\ ret.val[1] = None

\* C3: an embed_text call that misses the cache, with attempt count n >= 1,
\* raises EmbeddingError after exactly n service calls when every call fails,
\* and returns the vector after exactly k + 1 calls when the first k < n fail.
C3_ExactAttempts ==
    (last.index # 0 /\ ~IsBlank(last.text) /\ ~last.hit /\ last.n >= 1) =>
       /\ last.out.kind = "raise" =>
             /\ last.calls = last.n
             /\ Len(last.waits) = last.n - 1
       /\ last.out.kind = "value" =>
             /\ last.out.val # None
             /\ last.calls = Len(last.waits) + 1
             /\ last.calls <= last.n

\* a direct call with n = 3 whose service failed twice and then answered
C3_Witness ==
    /\ caller = "embed_text"
    /\ phase = "returned"
    /\ last.n = 3
    /\ last.calls = 3
    /\ Len(last.waits) = 2
    /\ ret.kind = "value"
    /\ ret.val # None

\* C4: a helper constructed with the cache enabled holds, from its start, the
\* entries that the cache file of its model holds for that model.
C4_CacheLoadedAtStartup ==
    (caller = "none" /\ enable_cache /\ cache_files[embedding_model].state = "written") =>
       \A h \in DOMAIN cache_files[embedding_model].entries :
          cache_files[embedding_model].entries[h].model = embedding_model =>
             /\ h \in DOMAIN embedding_cache
             /\ embedding_cache[h] = cache_files[embedding_model].entries[h]

C6_ModelIsolation ==
    (last.index # 0 /\ ~IsBlank(last.text) /\ last.enabled /\ last.cached # NoEntry) =>
       IF last.cached.model = last.model
         THEN /\ last.hit
              /\ last.calls = 0
              /\ last.out = ValueOf(last.cached.embedding)
         ELSE /\ ~last.hit
              /\ last.out # ValueOf(last.cached.embedding)
              /\ (last.out.kind = "value" /\ last.n >= 1) => last.out.val.model = last.model

\* a text cached under one model is looked up under the other and embedded anew
C6_Witness ==
    /\ last.index # 0
    /\ last.enabled
    /\ last.cached # NoEntry
    /\ last.cached.model # last.model
    /\ last.out.kind = "value"
    /\ last.out.val # None
    /\ last.calls >= 1

\* ------------------------------------------------------ dictionary builders
\* a builder is in its loop or has returned from it
Building(dt) ==
    /\ caller = "build_dictionary"
    /\ data_type = dt
    /\ phase \in {"assemble", "returned"}
\* the embed_text call of data[k] ended with a vector
Embedded(k) == fut[k].kind = "value" /\ fut[k].val # None
\* the positions among the first n whose embedding succeeded, in input order
KeptUpTo(n) == SelectSeq([k \in 1..n |-> k], Embedded)
\* the record emitted for data[k]
RecordOf(k) == dictionary[Len(KeptUpTo(k))]
IdKey(dt) == IF dt = "knowledge" THEN "insight_id" ELSE "fb_id"
TextOf(dt, item) == IF dt = "knowledge" THEN knowledge_text_of(item) ELSE feedback_text_of(item)

\* C7, as claimed: when the knowledge search raises for an embedded feedback
\* item, no exception leaves the builder and the item's record is emitted with
\* metadata mapped_perspectives = [].
C7_SearchErrorGivesEmptyMapping ==
    Building("feedback") =>
       /\ phase = "returned" => ret.kind = "list"
       /\ \A k \in 1..Len(searched) : searched[k].kind = "raise" =>
             /\ Len(KeptUpTo(k)) <= Len(dictionary)
             /\ RecordOf(k).vector = fut[k].val
             /\ RecordOf(k).metadata.mapped_perspectives = << >>

\* what holds of C7: the record is emitted, and its mapped_perspectives is []
\* unless the item has a field of that name, which is then what it holds
C7_EmptyUnlessPassedThrough ==
    Building("feedback") =>
       /\ phase = "returned" => ret.kind = "list"
       /\ \A k \in 1..Len(searched) : searched[k].kind = "raise" =>
             /\ Len(KeptUpTo(k)) <= Len(dictionary)
             /\ RecordOf(k).vector = fut[k].val
             /\ RecordOf(k).metadata.mapped_perspectives =
                   Get(data[k], "mapped_perspectives", << >>)

\* the search raised for an item that has a mapped_perspectives field of its
\* own; the builder has returned the record
C7_Witness ==
    /\ Building("feedback")
    /\ phase = "returned"
    /\ ret.kind = "list"
    /\ \E k \in 1..Len(searched) :
          /\ searched[k].kind = "raise"
          /\ "mapped_perspectives" \in DOMAIN data[k]
          /\ RecordOf(k).metadata.mapped_perspectives # << >>

\* C8: build_dictionary emits one record for exactly the items whose embedding
\* succeeded, in input order, each with its item's id, text and vector; it
\* skips the others without raising; input count = output count + skipped.
C8_ExactlyTheEmbedded ==
    \A dt \in {"knowledge", "feedback"} : Building(dt) =>
       LET n == Len(searched)
           kept == KeptUpTo(n)
       IN  /\ Len(dictionary) = Len(kept)
           /\ skipped = n - Len(kept)
           /\ \A j \in 1..Len(kept) :
                 /\ dictionary[j].vector = fut[kept[j]].val
                 /\ dictionary[j].text_for_embedding = TextOf(dt, data[kept[j]])
                 /\ dictionary[j].id =
                       Get(data[kept[j]], IdKey(dt), IndexId(dt, kept[j] - 1))
           /\ phase = "returned" =>
                 /\ ret.kind = "list"
                 /\ ret.val = dictionary
                 /\ n = Len(data)
                 /\ Len(data) = Len(ret.val) + skipped

\* two feedback items, the first failed to embed, the second was emitted
C8_Witness ==
    /\ Building("feedback")
    /\ phase = "returned"
    /\ Len(data) = 2
    /\ fut[1] = Raised("EmbeddingError")
    /\ Embedded(2)
    /\ Len(ret.val) = 1
    /\ skipped = 1

\* the projection {id, score, insight, aspect} of a search result
Projection(hit) ==
    [id |-> hit.id, score |-> hit.score,
     insight |-> Get(hit.metadata, "insight", << >>),
     aspect |-> Get(hit.metadata, "aspect", << >>)]
IsProjectionOf(mapped, hits) ==
    /\ Len(mapped) = Len(hits)
    /\ Len(mapped) <= TopK
    /\ \A j \in 1..Len(hits) : mapped[j] = Projection(hits[j])
    /\ \A j \in 1..(Len(hits) - 1) : FracLeq(hits[j + 1].score, hits[j].score)

\* C9, as claimed: for every embedded feedback item, metadata
\* mapped_perspectives is the projection of the hits the search returned for
\* it, one entry per hit, in descending order of score, at most top-K of them.
C9_MappedIsProjectionOfHits ==
    Building("feedback") =>
       \A k \in 1..Len(searched) : searched[k].kind = "value" =>
          IsProjectionOf(RecordOf(k).metadata.mapped_perspectives, searched[k].val[1])

\* what holds of C9: the same, for the items with no mapped_perspectives field
\* of their own; the others keep the value of their field
C9_ProjectionUnlessPassedThrough ==
    Building("feedback") =>
       \A k \in 1..Len(searched) : searched[k].kind = "value" =>
          IF "mapped_perspectives" \in DOMAIN data[k]
            THEN RecordOf(k).metadata.mapped_perspectives = data[k].mapped_perspectives
            ELSE IsProjectionOf(RecordOf(k).metadata.mapped_perspectives,
                                searched[k].val[1])

\* the search returned hits for an item that has a mapped_perspectives field
\* of its own, and the record holds the field instead of their projection
C9_Witness ==
    /\ Building("feedback")
    /\ phase = "returned"
    /\ \E k \in 1..Len(searched) :
          /\ searched[k].kind = "value"
          /\ Len(searched[k].val[1]) = TopK
          /\ "mapped_perspectives" \in DOMAIN data[k]
          /\ Len(RecordOf(k).metadata.mapped_perspectives) = 1

\* --------------------------------------------------------------------- main
\* C10: once the health check has passed, a run of main() in which some items
\* failed to embed and at least one knowledge or feedback record was produced
\* ends with status success or partial success and returns True.
C10_PartialRunSucceeds ==
    (mpc = "done" /\ failed_items > 0 /\ (knowledge_records > 0 \/ feedback_records > 0)) =>
       /\ status \in {Success, PartialSuccess}
       /\ main_ret = "True"

\* a run that lost items to embedding and whose feedback insert failed, but
\* that produced knowledge records: partial success, True
C10_Witness ==
    /\ mpc = "done"
    /\ failed_items > 0
    /\ knowledge_records > 0
    /\ errors # << >>
    /\ status = PartialSuccess
    /\ main_ret = "True"

\* ------------------------------------------------------------- concurrency
\* the embed_text calls in progress: started and not yet returned or raised
InProgress == {j \in DOMAIN wpc : wpc[j] \notin {"queued", "done"}}

\* C11: at every moment the number of embed_text calls in progress, backoff
\* sleeps included, is at most max_workers, whatever the size of the batch.
C11_BoundedConcurrency ==
    (caller \in {"embed_batch", "build_dictionary"} /\ phase = "running") =>
       Cardinality(InProgress) <= max_workers

\* a batch of two on a helper with one worker: the first call is between two
\* attempts, having slept once, and the second has not started
C11_Witness ==
    /\ caller = "embed_batch"
    /\ phase = "running"
    /\ max_workers = 1
    /\ Len(texts) = 2
    /\ wpc[1] = "call"
    /\ Len(waits[1]) = 1
    /\ wpc[2] = "queued"

\* the cache entries whose vector was computed for the text t
EntriesFor(t) == {h \in DOMAIN embedding_cache : embedding_cache[h].embedding.text = t}

\* C13: when workers of one batch embed the same text and both miss, under
\* every interleaving the cache holds exactly one entry for the text once a
\* worker has succeeded, the entry is the one the last worker to write left
\* (a vector one of the workers got for that text), and the slot of every
\* worker whose call succeeded holds a vector computed for that text.
C13_SameKeyRaceBenign ==
    /\ \A t \in Texts :
          /\ Cardinality(EntriesFor(t)) <= 1
          /\ succeeded[t] # {} =>
                /\ EntriesFor(t) = {md5(t)}
                /\ embedding_cache[md5(t)].embedding \in succeeded[t]
    /\ (last.index # 0 /\ last.calls >= 1 /\ last.out.kind = "value") =>
          /\ md5(last.text) \in DOMAIN embedding_cache
          /\ embedding_cache[md5(last.text)] = from_text(last.text, last.out.val, last.model)
    /\ BatchReturned =>
          \A i \in DOMAIN texts : fut[i].kind = "value" =>
             /\ ret.val[i] = fut[i].val
             /\ ret.val[i].text = texts[i]
             /\ ret.val[i].model = embedding_model
             /\ ret.val[i] \in succeeded[texts[i]]

\* the first batch of the helper, two workers on the same text: both missed,
\* the service gave them different vectors, the first worker wrote last and
\* the cache holds its vector; each slot holds its own worker's vector
C13_Witness ==
    /\ BatchReturned
    /\ nsubmitted = 2
    /\ Len(texts) = 2
    /\ texts[1] = texts[2]
    /\ ret.val[1] # None
    /\ ret.val[2] # None
    /\ ret.val[1] # ret.val[2]
    /\ last.index = 1
    /\ embedding_cache[md5(texts[1])].embedding = ret.val[1]

\* C14: every embed_text call on a text that is not blank adds one to exactly
\* one of cache_hits and cache_misses, so once the workers of a batch have all
\* finished cache_hits + cache_misses is the number of such texts the helper
\* has processed (here: every text submitted, none of them blank).
C14_NoLostUpdate ==
    (BatchReturned /\ \A i \in DOMAIN texts : ~IsBlank(texts[i])) =>
       stats.cache_hits + stats.cache_misses = nsubmitted

\* the first batch of the helper, two workers on a cold cache: both missed,
\* both called the service, and cache_misses counts one of them
C14_Witness ==
    /\ BatchReturned
    /\ nsubmitted = 2
    /\ Len(texts) = 2
    /\ ret.val[1] # None
    /\ ret.val[2] # None
    /\ ret.val[1] # ret.val[2]
    /\ stats.cache_hits = 0
    /\ stats.cache_misses = 1

\* ---------------------------------------------------------- the cache file
\* C15: whatever happens to _save_cache on the way, the cache file is
\* afterwards the complete new cache or the file as it was before, never a
\* partial or corrupt one.
C15_SaveIsAtomic ==
    [][\A m \in Models :
          \/ cache_files'[m] = cache_files[m]
          \/ cache_files'[m] = FileOf(embedding_cache)]_vars

\* a batch has returned its vector and left a cache file that cannot be read
C15_Witness ==
    /\ BatchReturned
    /\ save_error
    /\ Len(texts) = 1
    /\ ret.val[1] # None
    /\ cache_files[embedding_model] = CorruptFile

C17_LoadFailureNotFatal ==
    /\ (caller = "none" /\ enable_cache
           /\ cache_files[embedding_model].state \in {"absent", "corrupt"}) =>
          /\ ret = NoReturn
          /\ embedding_cache = EmptyCache
          /\ stats = ZeroStats
    /\ (last.index # 0 /\ last.enabled /\ last.cached = NoEntry
           /\ \E k \in DOMAIN last.text : last.text[k] \notin Whitespace) =>
          /\ ~last.hit
          /\ last.n >= 1 => last.calls >= 1
          /\ last.out.kind = "value" => last.out.val.text = last.text

\* a helper constructed over a corrupt cache file has made its first call: a
\* miss that the service answered
C17_Witness ==
    /\ caller = "embed_text"
    /\ phase = "returned"
    /\ enable_cache
    /\ cache_files[embedding_model] = CorruptFile
    /\ stats = [cache_hits |-> 0, cache_misses |-> 1]
    /\ last.cached = NoEntry
    /\ last.calls >= 1
    /\ ret.kind = "value"
    /\ ret.val # None

\* ------------------------------------------------------------ cancellation
\* C18: once the caller has cancelled an embed_batch in progress, a task that
\* has not started is never started, and at every moment a vector in the
\* outcome list stands at the index of its own text.
C18_CancelStopsQueued ==
    /\ [][phase = "interrupted" =>
            \A i \in DOMAIN wpc : wpc[i] = "queued" => wpc'[i] = "queued"]_vars
    /\ [](\A i \in DOMAIN embeddings :
            embeddings[i] # None => embeddings[i].text = texts[i])

\* a batch of two on one worker was interrupted while its second task had
\* not started
C18_Witness ==
    /\ caller = "embed_batch"
    /\ phase = "interrupted"
    /\ max_workers = 1
    /\ Len(texts) = 2
    /\ wpc[1] = "call"
    /\ wpc[2] = "queued"

\* ---------------------------------------------------------------- blank text
\* the text is empty or holds whitespace only
OnlyWhitespace(text) == \A k \in DOMAIN text : text[k] \in {" "}

\* C19: embed_text on an empty or whitespace-only text returns None without
\* raising, calls the embedding service not once, and leaves the cache as it
\* was: the call is one step that changes neither the cache nor its file, and
\* the cache never holds an entry for such a text.
C19_BlankShortCircuits ==
    /\ []((last.index # 0 /\ OnlyWhitespace(last.text)) =>
            /\ last.out = ValueOf(None)
            /\ last.calls = 0
            /\ last.waits = << >>
            /\ ~last.hit)
    /\ [](\A t \in AllTexts : OnlyWhitespace(t) =>
            /\ md5(t) \notin DOMAIN embedding_cache
            /\ issued[t] = 0)
    /\ [][\A i \in DOMAIN wpc :
            (phase = "running" /\ phase' = "running" /\ wpc[i] = "queued"
               /\ wpc'[i] # "queued" /\ OnlyWhitespace(texts[i])) =>
               /\ wpc'[i] = "done"
               /\ fut'[i] = ValueOf(None)
               /\ embedding_cache' = embedding_cache
               /\ cache_files' = cache_files
               /\ issued' = issued]_vars

\* a helper whose cache holds an entry is asked for the embedding of the
\* empty text: None, no service call, the cache as before
C19_Witness ==
    /\ caller = "embed_text"
    /\ phase = "returned"
    /\ texts = <<EmptyText>>
    /\ ret = ValueOf(None)
    /\ last.calls = 0
    /\ DOMAIN embedding_cache # {}

\* ------------------------------------------------------------------ backoff
\* the delays 1s, 2s, 4s: the base delay doubled k - 1 times, for k = 1, 2, 3
Doubling == <<1, 2, 4>>
\* values a ceiling on the delay could be configured to
Ceilings == {2, 4}
Smaller(a, b) == IF a < b THEN a ELSE b

\* C20, as claimed: whatever ceiling is configured, the wait after the k-th
\* failed attempt (k < n) is the doubled delay capped at the ceiling, and
\* there is no wait after the final failed attempt.
C20_BackoffCapped ==
    last.index # 0 =>
       /\ \A c \in Ceilings : \A k \in DOMAIN last.waits :
             last.waits[k] = Smaller(Doubling[k], c)
       /\ last.out.kind = "raise" => Len(last.waits) = last.n - 1

\* C20, amended: the wait after the k-th failed attempt (k < n) is 2^(k-1)
\* seconds, 1, 2, 4, ..., with no ceiling; one wait follows every failed
\* attempt but the final one, which raises without waiting.
C20_BackoffDoubles ==
    /\ \A i \in DOMAIN waits :
          /\ Len(waits[i]) = attempt[i]
          /\ Len(waits[i]) <= retry_count - 1
          /\ waits[i] = SubSeq(Doubling, 1, Len(waits[i]))
    /\ last.index # 0 =>
          /\ last.waits = SubSeq(Doubling, 1, Len(last.waits))
          /\ last.calls >= 1 => Len(last.waits) = last.calls - 1
          /\ last.out.kind = "raise" =>
                /\ last.calls = last.n
                /\ Len(last.waits) = last.n - 1

\* a call with four attempts all of which failed: it slept 1, 2 and 4 seconds
\* and raised after the fourth failure without sleeping again
C20_Witness ==
    /\ caller = "embed_text"
    /\ phase = "returned"
    /\ ret = Raised("EmbeddingError")
    /\ last.n = 4
    /\ last.calls = 4
    /\ last.waits = <<1, 2, 4>>

\* ---------------------------------------------------------- text functions
\* C22: clean_text is idempotent: cleaning a cleaned text gives it back.
C22_CleanIdempotent ==
    (op = "clean_text" /\ Len(trail) = 3) => trail[3] = trail[2]

\* "a # b" was cleaned to "a  b", two spaces, and that to "a b"
C22_Witness ==
    /\ op = "clean_text"
    /\ trail = << <<"a", " ", "#", " ", "b">>, <<"a", " ", " ", "b">>, <<"a", " ", "b">> >>

\* part occurs in text: Python's "part in text"
Contains(text, part) ==
    \E k \in 0..(Len(text) - Len(part)) : SubSeq(text, k + 1, k + Len(part)) = part

\* a label as the tests write it: the word, an ASCII colon and a space
TestedLabel(word) == <<word, ":", " ">>

\* C23: build_knowledge_text returns a non-empty string for every item, also
\* when aspect and insight are missing, empty or whitespace-only.
C23_KnowledgeTextNonEmpty ==
    op = "build_knowledge_text" => trail[2] # << >>

\* the item {"insight": ""} gave the empty text
C23_Witness ==
    /\ op = "build_knowledge_text"
    /\ trail = <<[insight |-> << >>], << >>>>

\* C24: build_knowledge_text renders aspect, insight and sentiment, in this
\* order, each as the label the tests assert followed by the cleaned value.
C24_LabelsAsTested ==
    op = "build_knowledge_text" =>
      LET item == trail[1]
          aspect == clean_text(Get(item, "aspect", << >>))
          insight == clean_text(Get(item, "insight", << >>))
          sentiment == clean_text(Get(item, "sentiment", << >>))
      IN  /\ aspect # << >> => Contains(trail[2], TestedLabel("weidu") \o aspect)
          /\ insight # << >> => Contains(trail[2], TestedLabel("guandian") \o insight)
          /\ sentiment # << >> => Contains(trail[2], TestedLabel("qinggan") \o sentiment)

\* an item with all six fields, as in the test, was rendered with the labels
\* of the code: the fullwidth colon and no space
C24_Witness ==
    /\ op = "build_knowledge_text"
    /\ DOMAIN trail[1] = {"aspect", "insight", "sentiment", "description", "examples", "keywords"}
    /\ Contains(trail[2], Label("weidu") \o <<"a">> \o Bar \o Label("guandian") \o <<"b">>
                            \o Bar \o Label("qinggan") \o <<"a">>)
    /\ ~Contains(trail[2], <<":">>)

\* C25: for a non-empty raw text build_feedback_text gives a text with
\* "zhaiyao: <summary>" and "yuanwen: <raw text>" when there is a summary, and
\* with "yuanwen: <raw text>" and no "zhaiyao:" when there is none.
C25_FeedbackTextAsTested ==
    op = "build_feedback_text" =>
      LET raw == clean_text(trail[1].raw_text)
          summary == clean_text(trail[1].summary)
      IN  raw # << >> =>
            /\ summary # << >> =>
                  /\ Contains(trail[2], TestedLabel("zhaiyao") \o summary)
                  /\ Contains(trail[2], TestedLabel("yuanwen") \o raw)
            /\ trail[1].summary = << >> =>
                  /\ Contains(trail[2], TestedLabel("yuanwen") \o raw)
                  /\ ~Contains(trail[2], <<"zhaiyao", ":">>)

\* a raw text without summary was rendered under the label "yonghu fankui",
\* the word "yuanwen" nowhere in it
C25_Witness ==
    /\ op = "build_feedback_text"
    /\ trail[1] = [raw_text |-> <<"a">>, summary |-> << >>]
    /\ trail[2] = Label("yonghu fankui") \o <<"a">>
    /\ ~Contains(trail[2], <<"yuanwen">>)

\* ------------------------------------------------------------ progress counts
\* C26: after each completion the progress bar shows succeeded + failed =
\* completed, succeeded the number of completed tasks that gave a vector and
\* failed the number of completed tasks that gave none.
C26_ProgressCounts ==
    (caller \in {"embed_batch", "build_dictionary"} /\ completed >= 1
       /\ Cardinality(collected) = completed) =>
      /\ postfix[1] + postfix[2] = completed
      /\ postfix[1] = Cardinality({i \in collected : embeddings[i] # None})
      /\ postfix[2] = Cardinality({i \in collected : embeddings[i] = None})

\* the second text of a batch completed first, with a vector, and the bar
\* shows no success and one failure
C26_Witness ==
    /\ caller = "embed_batch"
    /\ collected = {2}
    /\ embeddings[2] # None
    /\ completed = 1
    /\ postfix = <<0, 1>>

InDomain(metric, distance) ==
    IF metric = "COSINE"
      THEN FracLeq(<<-1, 1>>, distance) /\ FracLeq(distance, <<1, 1>>)
    ELSE IF metric = "L2" THEN FracLeq(<<0, 1>>, distance)
    ELSE TRUE

\* C28: the score of every hit LocalVectorDB.search returns lies in [0, 1],
\* for COSINE with a distance in [-1, 1], for L2 with a distance of 0 or more
\* and for any other metric with any distance.
C28_ScoreInUnitInterval ==
    \A k \in 1..Len(searched) : searched[k].kind = "value" =>
       \A j \in 1..Len(searched[k].val[1]) :
          LET result == searched[k].val[1][j]
          IN  InDomain(similarity_metric, result.distance) =>
                /\ FracLeq(<<0, 1>>, result.score)
                /\ FracLeq(result.score, <<1, 1>>)

\* a search under the metric IP returned a hit of distance -1 with score 0 and
\* a hit of distance 1/2 with that score
C28_Witness ==
    /\ similarity_metric = "IP"
    /\ \E k \in 1..Len(searched) :
          /\ searched[k].kind = "value"
          /\ \E j \in 1..Len(searched[k].val[1]) :
                /\ searched[k].val[1][j].distance = <<-1, 1>>
                /\ searched[k].val[1][j].score = <<0, 1>>
          /\ \E j \in 1..Len(searched[k].val[1]) :
                /\ searched[k].val[1][j].distance = <<1, 2>>
                /\ searched[k].val[1][j].score = <<1, 2>>

\* ---------------------------------------------------------------- determinism
\* the record a run builds for data[k] from the same item, the same answer of
\* the cache or the embedding service and the same answer of the search, when
\* its clock reads ClockStart
RefRecord(k) ==
    IF data_type = "knowledge"
      THEN knowledge_record(k - 1, data[k], fut[k].val, TextOf("knowledge", data[k]),
                            embedding_model, ClockStart)
      ELSE feedback_record(k - 1, data[k], fut[k].val, TextOf("feedback", data[k]),
                           embedding_model, searched[k], ClockStart)

\* a record without metadata.created_time
SansCreatedTime(r) ==
    [r EXCEPT !.metadata = [f \in DOMAIN r.metadata \ {"created_time"} |-> r.metadata[f]]]

\* the run builds records
BuildingRecords == Building("knowledge") \/ Building("feedback")

C29_ConstructorConnects ==
    op = "LocalVectorDB" =>
       /\ trail[1].client_fails => trail[1].raised \in VectorDBErrors
       /\ trail[1].raised = "None" => trail[1].client_after # NoClient

\* the constructor returned, with a client that could not have been created,
\* and the database holds no client
C29_Witness ==
    /\ op = "LocalVectorDB"
    /\ trail = <<DBCall("__init__", TRUE, "None", 0, NoClient)>>
    /\ client = NoClient

\* C30: leaving the block of "with LocalVectorDB(path) as db:" calls close()
\* on the client exactly once, whether the block ends normally or by exception.
C30_ExitClosesOnce ==
    (op = "LocalVectorDB" /\ Len(trail) >= 2 /\ trail[2].call = "__enter__") =>
       \A k \in 3..Len(trail) :
          (trail[k].call = "__exit__" /\ \A j \in 3..(k - 1) : trail[j].call # "__exit__")
             => trail[k].closes = 1

\* the block of "with LocalVectorDB(path) as db:" was left by exception at
\* once, and no client was closed
C30_Witness ==
    /\ op = "LocalVectorDB"
    /\ trail = <<DBCall("__init__", FALSE, "None", 0, NoClient),
                 DBCall("__enter__", FALSE, "None", 0, NoClient),
                 DBCall("__exit__", FALSE, "Exception", 0, NoClient)>>
    /\ client_closes = 0

\* --------------------------------------------------------------------- upsert
\* every batch of the call was taken by the client
AllTaken(call) == \A b \in DOMAIN call.outcomes : call.outcomes[b] = "ok"

\* the last entity of a list with the id of a row
LastWithId(entities, id) ==
    entities[CHOOSE k \in 1..Len(entities) :
               /\ entities[k].id = id
               /\ \A j \in (k + 1)..Len(entities) : entities[j].id # id]

\* C31: upsert is insert-or-update keyed by id: after an upsert the client took
\* whole, the collection holds one row for each id, the last entity upserted
\* with it, and upserting the same list again leaves the same rows.
C31_UpsertByKey ==
    op = "upsert" =>
       /\ \A c \in 1..Len(trail) : AllTaken(trail[c]) =>
             \A i, j \in 1..Len(trail[c].rows) :
                /\ trail[c].rows[i].id = trail[c].rows[j].id => i = j
                /\ trail[c].rows[i] = LastWithId(trail[c].entities, trail[c].rows[i].id)
       /\ (Len(trail) = 2 /\ AllTaken(trail[1]) /\ AllTaken(trail[2])) =>
             trail[2].rows = trail[1].rows

\* one entity was upserted twice, both times taken by the client, and the
\* collection holds two rows with its id
C31_Witness ==
    /\ op = "upsert"
    /\ Len(trail) = 2
    /\ trail[1].entities = <<Entity(<<"k1">>, <<"a">>)>>
    /\ trail[2].ret = ValueOf(TRUE)
    /\ trail[2].rows = <<Entity(<<"k1">>, <<"a">>), Entity(<<"k1">>, <<"a">>)>>

\* the lists of a list of lists, one after the other
RECURSIVE Concat(_)
Concat(seqs) == IF seqs = << >> THEN << >> ELSE Head(seqs) \o Concat(Tail(seqs))

\* C33: upsert goes through the entities in consecutive batches of at most
\* batch_size, a batch that raised keeps no later batch from being tried and
\* nothing is raised to the caller; it returns True iff the list was empty or
\* at least one entity was inserted.
C33_BatchFailuresIsolated ==
    op = "upsert" =>
       \A c \in 1..Len(trail) :
          LET call == trail[c]
          IN  /\ Concat(call.attempted) = call.entities
              /\ \A b \in 1..Len(call.attempted) :
                    /\ Len(call.attempted[b]) >= 1
                    /\ Len(call.attempted[b]) <= call.batch_size
                    /\ b < Len(call.attempted) => Len(call.attempted[b]) = call.batch_size
              /\ call.ret.kind = "value"
              /\ call.ret.val <=> (call.entities = << >> \/ Len(call.rows) > Len(call.before))

\* of two batches of one entity the first raised and the second was inserted:
\* upsert returned True
C33_Witness ==
    /\ op = "upsert"
    /\ Len(trail) = 1
    /\ trail[1].batch_size = 1
    /\ trail[1].outcomes = <<"raise", "ok">>
    /\ Len(trail[1].attempted) = 2
    /\ trail[1].rows = <<trail[1].entities[2]>>
    /\ trail[1].ret = ValueOf(TRUE)

\* ------------------------------------------------------------ save after work
\* the task of texts[i] ended with a vector
GaveVector(i) == fut[i].kind = "value" /\ fut[i].val # None

EntryOf(cache, text) == IF md5(text) \in DOMAIN cache THEN cache[md5(text)] ELSE NoEntry

\* the step is the end of a successful service call of the task of texts[i]
SucceedsIn(i) ==
    /\ i \in DOMAIN wpc /\ wpc[i] = "call"
    /\ wpc'[i] = "done" /\ fut'[i].kind = "value" /\ fut'[i].val # None

\* C34: a failed embedding leaves the cache as it was: while calls run, the
\* cache changes only in a step that ends a successful service call, and then
\* only in the entry of that call's text; after an embed_text call by itself
\* raised EmbeddingError, the entry of its text is the one it found.
C34_FailureLeavesCache ==
    /\ [][(phase = "running" /\ phase' = "running" /\ embedding_cache' # embedding_cache) =>
            \E i \in DOMAIN wpc :
               /\ SucceedsIn(i)
               /\ \A t \in AllTexts \ {texts[i]} :
                     EntryOf(embedding_cache', t) = EntryOf(embedding_cache, t)]_vars
    /\ []((caller = "embed_text" /\ last.index # 0 /\ wpc = <<"done">>
            /\ fut[1] = Raised("EmbeddingError")) =>
             EntryOf(embedding_cache, last.text) = last.cached)

\* an embed_text call by itself raised EmbeddingError after all its attempts,
\* with a cache that holds an entry for another text and none for its own
C34_Witness ==
    /\ caller = "embed_text"
    /\ wpc = <<"done">>
    /\ fut[1] = Raised("EmbeddingError")
    /\ last.calls = last.n
    /\ last.calls >= 2
    /\ DOMAIN embedding_cache # {}
    /\ md5(last.text) \notin DOMAIN embedding_cache

\* ------------------------------------------------------------- cache disabled
\* C35: with the cache disabled the in-memory cache stays empty, no step
\* writes a cache file, and every embed_text call on a text that is not blank
\* is a miss that calls the embedding service, however often the text was
\* embedded before.
C35_DisabledCacheUnused ==
    /\ [](~enable_cache => embedding_cache = EmptyCache)
    /\ [][~enable_cache => cache_files' = cache_files]_vars
    /\ []((last.index # 0 /\ ~last.enabled /\ ~skips_embedding(last.text)) =>
             /\ ~last.hit
             /\ last.cached = NoEntry
             /\ last.calls >= 1)

\* with the cache disabled a text that a call had embedded before was embedded
\* again by a service call, and a batch has returned without a file written
C35_Witness ==
    /\ ~enable_cache
    /\ caller = "embed_batch"
    /\ phase = "returned"
    /\ last.index # 0
    /\ last.seen # {}
    /\ last.calls >= 1
    /\ last.out.kind = "value" /\ last.out.val # None
    /\ \A m \in Models : cache_files[m] = AbsentFile

\* ---------------------------------------------------------------- termination
\* embed_batch has returned the list of a vector or None for every text,
\* every task finished and collected
BatchDone ==
    /\ caller = "embed_batch"
    /\ phase = "returned"
    /\ \A i \in DOMAIN texts : wpc[i] = "done"
    /\ collected = DOMAIN texts
    /\ ret.kind = "list"
    /\ Len(ret.val) = Len(texts)

\* C36: when every call to the embedding service returns or raises, an
\* embed_batch call returns, every task of it finished, and no task makes
\* more service calls than retry_count.
C36_BatchTerminates ==
    /\ (caller = "embed_batch" /\ phase = "running") ~> BatchDone
    /\ [](\A i \in DOMAIN attempt : attempt[i] < retry_count)
    /\ [](last.index # 0 => last.calls <= last.n)

\* a batch of two texts returned after a task had used all its service calls
C36_Witness ==
    /\ BatchDone
    /\ Len(texts) = 2
    /\ \E i \in DOMAIN texts : fut[i] = Raised("EmbeddingError")
    /\ last.calls = last.n

\* ------------------------------------------------------------------ record ids
\* C37: the id of an emitted record is its item's own insight_id or fb_id when
\* the item has one, and otherwise "knowledge_<i>" or "feedback_<i>" with i the
\* item's index in the input list, whichever other items were skipped.
C37_IdByInputPosition ==
    BuildingRecords =>
       \A k \in 1..Len(searched) : Embedded(k) =>
          RecordOf(k).id = IF IdKey(data_type) \in DOMAIN data[k]
                             THEN data[k][IdKey(data_type)]
                             ELSE <<data_type, "_", ToString(k - 1)>>

\* the first item was skipped and the second, which has no id of its own, was
\* emitted as the first record under the number 1
C37_Witness ==
    /\ BuildingRecords
    /\ Len(searched) = 2
    /\ ~Embedded(1) /\ Embedded(2)
    /\ IdKey(data_type) \notin DOMAIN data[2]
    /\ Len(dictionary) = 1
    /\ dictionary[1].id = <<data_type, "_", "1">>

\* ---------------------------------------------------------- computed metadata
\* C38: in every feedback record the metadata mapped_perspectives is the
\* mapping computed from the search made for the record, and match_count its
\* length, whatever other fields the input item has.
C38_ComputedMetadataKept ==
    Building("feedback") =>
       \A k \in 1..Len(searched) : Embedded(k) =>
          /\ RecordOf(k).metadata.mapped_perspectives = mapped_perspectives_of(searched[k])
          /\ RecordOf(k).metadata.match_count = Len(mapped_perspectives_of(searched[k]))

\* the search for an item that has fields mapped_perspectives and match_count
\* of its own gave two hits, and the record holds the item's values
C38_Witness ==
    /\ Building("feedback")
    /\ \E k \in 1..Len(searched) :
          /\ Embedded(k)
          /\ searched[k].kind = "value"
          /\ Len(mapped_perspectives_of(searched[k])) = 2
          /\ "match_count" \in DOMAIN data[k]
          /\ RecordOf(k).metadata.match_count = data[k].match_count
          /\ RecordOf(k).metadata.mapped_perspectives = data[k].mapped_perspectives

\* ------------------------------------------------------ release of the client
\* C39: once get_vector_db() has returned a connected database, db.close()
\* has been called when main() returns, on every path.
C39_ClosedOnEveryExit ==
    (mpc = "done" /\ client # NoClient) => (db_closed /\ client_closes = 1)

\* main() returned False after a failed health check, the database connected
\* and never closed
C39_Witness ==
    /\ mpc = "done"
    /\ main_ret = "False"
    /\ client = "MilvusClient"
    /\ ~db_closed
    /\ client_closes = 0

====
